---- MODULE Spec2Model ----
(***************************************************************************)
(* Model of the WebSocket chat gateway of websocket-learn:                 *)
(* src/src/controllers/messageController.js (bundle: REST message          *)
(* controller, server bootstrap and the WebSocket server) and the Message  *)
(* model in src/unnamed/part_004.                                          *)
(*                                                                         *)
(* Every async handler is cut at its `await`s: one action per segment      *)
(* between two suspension points.  A store call takes effect when the      *)
(* awaiting handler resumes; a `new Date()` among its arguments is taken   *)
(* when the call is made.  Times are kept up to their order.               *)
(***************************************************************************)
EXTENDS Integers, Sequences, FiniteSets, TLC

\* ------------------------------------------------------------------ bounds
MaxConns == 3        \* connections ever accepted by the server
MaxMsgs == 2         \* Message documents ever created
MaxTicks == 2        \* heartbeat ticks
MaxInFlight == 2     \* handlers suspended on a store call at the same time
MaxTime == 2         \* latest time new Date() gives

\* Message documents of a collection that exists before the server starts.
StoreMsgs == MaxMsgs

Conns == 1..MaxConns
NoConn == 0

\* ------------------------------------------------------------ identities
\* User documents of the store.  An id is the lowercase hex string that
\* user._id.toString() yields.
Users == {"a", "b"}
\* A well-formed id that names no user document.
Ghost == "x"
\* Ids as they can appear on the wire (receiverId / senderId / :userId):
\* the canonical spelling, the uppercase-hex spelling of the same ObjectId,
\* the ghost id, and "" for a missing field.
WireIds == {"a", "b", "A", "x", ""}
\* What the `token` query parameter can be: absent, not verifiable, or a
\* verifiable token whose payload id is the given id.
Tokens == {"none", "bad", "a", "b", "x"}
\* What the Host header of the upgrade request can be: a host, or empty.
Hosts == {"localhost", ""}

VARIABLES
    readyState,        \* c -> "NEW" (slot unused) | "OPEN" | "CLOSING" | "CLOSED"
    hpc,               \* c -> where the connection handler of c is
    decoded,           \* c -> decoded.id of the handshake token
    userId,            \* c -> ws.userId ("" = undefined)
    isAlive,           \* c -> ws.isAlive: "undef" | "true" | "false"
    closeCode,         \* c -> code of the last close the server started on c:
                       \*      close(code), or 1006 for terminate() (0 = none)
    cpc,               \* c -> where the close handler of c is
    closeAt,           \* c -> the `lastSeen: new Date()` of the update the close
                       \*      handler of c is waiting for (0 = none pending)
    dead,              \* connections whose transport has died without a close
                       \*      signal: nothing reaches the peer or comes from it
    errorEmitted,      \* connections whose receiver met a frame that violates
                       \*      the protocol: ws reads nothing more from them
    peerClosed,        \* connections whose peer has closed its side (its close
                       \*      frame, or the end of its stream, has arrived): ws
                       \*      reads nothing more from them
    failed,            \* connections with a send that failed on a dead
                       \*      transport and whose write error has not surfaced
    sent,              \* c -> envelopes written to the socket of c by the last
                       \*      handler segment that ran, in order
    connectedClients,  \* the Map: user id -> connection (NoConn = no entry)
    isOnline,          \* User.isOnline
    lastSeen,          \* User.lastSeen (0 = never set by the gateway)
    messages,          \* Message collection, index = _id
    tasks,             \* invocations of the 'message' listener and of the REST
                       \*      handlers that are suspended, in arrival order
    finished,          \* the invocation that returned in the last step, if any
    ticks,             \* heartbeat ticks so far
    crashed            \* process.exit(1) ran

vars == <<readyState, hpc, decoded, userId, isAlive, closeCode, cpc, closeAt, dead,
          errorEmitted, peerClosed, failed, sent, connectedClients, isOnline, lastSeen, messages, tasks, finished, ticks, crashed>>

taskVars == <<tasks, finished>>

connVars == <<readyState, hpc, decoded, userId, isAlive, closeCode, cpc, closeAt, dead,
              errorEmitted, peerClosed>>
storeVars == <<isOnline, lastSeen, messages>>

\* ------------------------------------------------------------- helpers
\* Mongoose casts a 24-hex string to an ObjectId; hex digits parse
\* case-insensitively, so two spellings name one ObjectId.
Cast(id) ==
    IF id = "A" THEN "a" ELSE id

\* wss.clients: every socket the server accepted whose 'close' event has
\* not fired, authenticated or not.
wssClients == {c \in Conns : readyState[c] \in {"OPEN", "CLOSING"}}

Env(type, mid, uid, n, users, text) ==
    [type |-> type, mid |-> mid, uid |-> uid, n |-> n, users |-> users, text |-> text]

ErrorEnv(text) == Env("error", 0, "", 0, {}, text)

\* A task: the connection and envelope of the invocation (a REST request
\* has no connection and carries req.user), the await it is suspended at,
\* the `new Date()` of the read mark it issued, the _id of the Message it
\* created, the envelopes it has written so far, and (once it returned)
\* whether an envelope that arrived earlier on the same connection was still
\* being handled at that moment.
NoTask == [conn |-> NoConn, user |-> "", type |-> "", id |-> "", pc |-> "done",
           at |-> 0, mid |-> 0, out |-> <<>>, overtook |-> FALSE]

\* The event loop is between two callbacks: the process runs and no
\* microtask is queued.  The catch of a 'message' listener whose handler
\* threw is such a microtask: it runs as soon as the frames of the chunk that
\* is being read have been handled, before any other event.
Idle == ~crashed /\ \A j \in 1..Len(tasks) : tasks[j].pc # "catch"

\* The frames of one chunk are frames of one socket.
SameChunk(c) ==
    ~crashed /\ \A j \in 1..Len(tasks) : tasks[j].pc = "catch" => tasks[j].conn = c

SetMax(S) == CHOOSE x \in S \cup {0} : \A y \in S : y <= x

\* The times new Date() can give: the clock does not run backwards, and it
\* has the resolution of a millisecond, so the time is that of the latest
\* new Date() before it (the times that are stored or on their way to the
\* store) or a later one, as long as there is a later one up to MaxTime.
Now ==
    LET latest == SetMax({messages[m].readAt : m \in 1..Len(messages)}
                         \cup {lastSeen[u] : u \in Users}
                         \cup {closeAt[c] : c \in Conns}
                         \cup {tasks[j].at : j \in 1..Len(tasks)})
    IN  {t \in {latest, latest + 1} : 1 <= t /\ t <= MaxTime}

NoSent == [c \in Conns |-> <<>>]

\* send() of ws on an OPEN socket hands the data to the transport and
\* returns: it does not throw, and the caller goes on to its next send.  On
\* a dead transport the write fails afterwards, on that socket alone: the
\* sockets of the outbox ob whose send fails.
FailedSends(ob) == {c \in dead : ob[c] # <<>>}

\* A send that writes the envelope twice.
sendToClientTwice(ob, c, env) ==
    IF readyState[c] = "OPEN" THEN [ob EXCEPT ![c] = Append(Append(@, env), env)] ELSE ob

\* A send that does not look at the state of the socket.
sendToClientUnchecked(ob, c, env) == [ob EXCEPT ![c] = Append(@, env)]
\* sendToClient: writes only when the socket is OPEN.
sendToClient(ob, c, env) ==
    IF readyState[c] = "OPEN" THEN [ob EXCEPT ![c] = Append(@, env)] ELSE ob

sendError(ob, c, text) == sendToClient(ob, c, ErrorEnv(text))

\* A status broadcast whose loop ends at the first client whose send fails.
broadcastUserStatusStopsAtFailure(ob, uid, online) ==
    [c \in Conns |->
        IF /\ c \in wssClients /\ readyState[c] = "OPEN" /\ userId[c] # uid
           /\ \A f \in dead : f < c =>
                 ~(f \in wssClients /\ readyState[f] = "OPEN" /\ userId[f] # uid)
        THEN Append(ob[c], Env(IF online THEN "user_online" ELSE "user_offline",
                               0, uid, 0, {}, ""))
        ELSE ob[c]]
\* broadcastUserStatus: every OPEN client whose userId differs from uid.
broadcastUserStatus(ob, uid, online) ==
    [c \in Conns |->
        IF c \in wssClients /\ readyState[c] = "OPEN" /\ userId[c] # uid
        THEN Append(ob[c], Env(IF online THEN "user_online" ELSE "user_offline",
                               0, uid, 0, {}, ""))
        ELSE ob[c]]

OnlineSet(on) == {u \in Users : on[u]}

OnlineUsersEnv(on) ==
    Env("online_users", 0, "", Cardinality(OnlineSet(on)), OnlineSet(on), "")

\* A snapshot broadcast that skips the clients that carry no identity.
broadcastOnlineUsersAuthenticated(ob, on) ==
    [c \in Conns |->
        IF c \in wssClients /\ readyState[c] = "OPEN" /\ userId[c] # ""
        THEN Append(ob[c], OnlineUsersEnv(on))
        ELSE ob[c]]
\* the send loop of broadcastOnlineUsers: every OPEN client.
broadcastOnlineUsers(ob, on) ==
    [c \in Conns |->
        IF c \in wssClients /\ readyState[c] = "OPEN"
        THEN Append(ob[c], OnlineUsersEnv(on))
        ELSE ob[c]]

\* A close() that leaves the socket open.
CloseSocketLeavesOpen(rs, c) == rs

\* WebSocket.close(code): starts the closing handshake of an OPEN socket,
\* no effect on one that is CLOSING or CLOSED.
CloseSocket(rs, c) == IF rs[c] = "OPEN" THEN [rs EXCEPT ![c] = "CLOSING"] ELSE rs
CloseCodeOf(cc, c, code) == IF readyState[c] = "OPEN" THEN [cc EXCEPT ![c] = code] ELSE cc

TypeOK ==
    /\ readyState \in [Conns -> {"NEW", "OPEN", "CLOSING", "CLOSED"}]
    /\ hpc \in [Conns -> {"new", "findUser", "setOnline", "broadcast", "active", "rejected", "threw"}]
    /\ decoded \in [Conns -> Users \cup {Ghost, ""}]
    /\ userId \in [Conns -> Users \cup {""}]
    /\ isAlive \in [Conns -> {"undef", "true", "false"}]
    /\ closeCode \in [Conns -> {0, 1006, 4001, 4002, 4003, 4004, 4005}]
    /\ cpc \in [Conns -> {"none", "setOffline", "broadcast", "done"}]
    /\ closeAt \in [Conns -> Nat]
    /\ dead \subseteq Conns
    /\ errorEmitted \subseteq Conns
    /\ peerClosed \subseteq Conns
    /\ failed \subseteq Conns
    /\ connectedClients \in [Users -> Conns \cup {NoConn}]
    /\ isOnline \in [Users -> BOOLEAN]
    /\ lastSeen \in [Users -> Nat]
    /\ Len(messages) <= StoreMsgs
    /\ Len(tasks) <= MaxInFlight
    /\ ticks \in 0..MaxTicks
    /\ crashed \in BOOLEAN

Init ==
    /\ readyState = [c \in Conns |-> "NEW"]
    /\ hpc = [c \in Conns |-> "new"]
    /\ decoded = [c \in Conns |-> ""]
    /\ userId = [c \in Conns |-> ""]
    /\ isAlive = [c \in Conns |-> "undef"]
    /\ closeCode = [c \in Conns |-> 0]
    /\ cpc = [c \in Conns |-> "none"]
    /\ closeAt = [c \in Conns |-> 0]
    /\ dead = {}
    /\ errorEmitted = {}
    /\ peerClosed = {}
    /\ failed = {}
    /\ sent = NoSent
    /\ connectedClients = [u \in Users |-> NoConn]
    /\ isOnline = [u \in Users |-> FALSE]
    /\ lastSeen = [u \in Users |-> 0]
    /\ messages = <<>>
    /\ tasks = <<>>
    /\ finished = NoTask
    /\ ticks = 0
    /\ crashed = FALSE

\* Number of handler invocations currently suspended on an await.
InFlight ==
    Cardinality({c \in Conns : hpc[c] \in {"findUser", "setOnline", "broadcast"}})
    + Cardinality({c \in Conns : cpc[c] \in {"setOffline", "broadcast"}})
    + Len(tasks)


\* =================================================== connection handler
\* wss.on('connection'): STEP 1 up to the first await (User.findById).
\* `new URL(req.url, 'http://' + host)` (line 577) throws on an empty Host:
\* the async handler rejects with the socket open, nothing handles the
\* rejection, and process.on('unhandledRejection') exits the process.
Connection(c, host, tok) ==
    /\ Idle
    /\ readyState[c] = "NEW"
    /\ \A d \in Conns : d < c => readyState[d] # "NEW"
    /\ IF host = ""
       THEN /\ crashed' = TRUE
            /\ readyState' = [readyState EXCEPT ![c] = "OPEN"]
            /\ hpc' = [hpc EXCEPT ![c] = "threw"]
            /\ sent' = NoSent
            /\ UNCHANGED <<decoded, closeCode>>
       ELSE IF tok = "none"
       THEN /\ sent' = [NoSent EXCEPT ![c] =
                    <<ErrorEnv("Authentication required. Please provide a valid token.")>>]
            /\ readyState' = [readyState EXCEPT ![c] = "CLOSING"]
            /\ closeCode' = [closeCode EXCEPT ![c] = 4001]
            /\ hpc' = [hpc EXCEPT ![c] = "rejected"]
            /\ UNCHANGED <<decoded, crashed>>
       ELSE IF tok = "bad"
       THEN /\ sent' = [NoSent EXCEPT ![c] =
                    <<ErrorEnv("Invalid or expired token. Please login again.")>>]
            /\ readyState' = [readyState EXCEPT ![c] = "CLOSING"]
            /\ closeCode' = [closeCode EXCEPT ![c] = 4002]
            /\ hpc' = [hpc EXCEPT ![c] = "rejected"]
            /\ UNCHANGED <<decoded, crashed>>
       ELSE /\ InFlight < MaxInFlight
            /\ readyState' = [readyState EXCEPT ![c] = "OPEN"]
            /\ decoded' = [decoded EXCEPT ![c] = tok]
            /\ hpc' = [hpc EXCEPT ![c] = "findUser"]
            /\ sent' = NoSent
            /\ UNCHANGED <<closeCode, crashed>>
    /\ finished' = NoTask
    /\ UNCHANGED <<userId, isAlive, cpc, closeAt, dead, errorEmitted, peerClosed, connectedClients, storeVars, tasks,
                   ticks>>
    /\ UNCHANGED failed

\* Resumption after `await User.findById(decoded.id)`: rejection 4003/4004,
\* or STEP 3 (registration) up to `await User.findByIdAndUpdate(isOnline)`.
HandshakeFindUser(c, ok) ==
    /\ Idle
    /\ hpc[c] = "findUser"
    /\ IF ~ok
       THEN /\ sent' = sendError(NoSent, c, "Server error during authentication.")
            /\ readyState' = CloseSocket(readyState, c)
            /\ closeCode' = CloseCodeOf(closeCode, c, 4004)
            /\ hpc' = [hpc EXCEPT ![c] = "rejected"]
            /\ UNCHANGED <<userId, isAlive, connectedClients>>
       ELSE IF decoded[c] \notin Users
       THEN /\ sent' = sendError(NoSent, c, "User not found.")
            /\ readyState' = CloseSocket(readyState, c)
            /\ closeCode' = CloseCodeOf(closeCode, c, 4003)
            /\ hpc' = [hpc EXCEPT ![c] = "rejected"]
            /\ UNCHANGED <<userId, isAlive, connectedClients>>
       ELSE LET u == decoded[c]
                old == connectedClients[u]
            IN  /\ userId' = [userId EXCEPT ![c] = u]
                /\ isAlive' = [isAlive EXCEPT ![c] = "true"]
                /\ IF old # NoConn
                   THEN /\ readyState' = CloseSocket(readyState, old)
                        /\ closeCode' = CloseCodeOf(closeCode, old, 4005)
                   ELSE UNCHANGED <<readyState, closeCode>>
                /\ connectedClients' = [connectedClients EXCEPT ![u] = c]
                /\ hpc' = [hpc EXCEPT ![c] = "setOnline"]
                /\ sent' = NoSent
    /\ decoded' = [decoded EXCEPT ![c] = ""]
    /\ finished' = NoTask
    /\ UNCHANGED <<cpc, closeAt, dead, errorEmitted, peerClosed, storeVars, tasks, ticks, crashed>>
    /\ failed' = failed \cup FailedSends(sent')

\* Resumption after `await User.findByIdAndUpdate(ws.userId, {isOnline: true})`
\* (STEP 4): welcome envelope, broadcastUserStatus, then the await inside
\* broadcastOnlineUsers.  The await is not guarded: a rejection is an
\* unhandled rejection and the process exits.
HandshakeSetOnline(c, ok) ==
    /\ Idle
    /\ hpc[c] = "setOnline"
    /\ IF ok
       THEN /\ isOnline' = [isOnline EXCEPT ![userId[c]] = TRUE]
            /\ sent' = broadcastUserStatus(
                            sendToClient(NoSent, c,
                                Env("connection_established", 0, userId[c], 0, {}, "")),
                            userId[c], TRUE)
            /\ hpc' = [hpc EXCEPT ![c] = "broadcast"]
            /\ UNCHANGED crashed
       ELSE /\ crashed' = TRUE
            /\ sent' = NoSent
            /\ UNCHANGED <<isOnline, hpc>>
    /\ finished' = NoTask
    /\ UNCHANGED <<readyState, decoded, userId, isAlive, closeCode, cpc, closeAt, dead, errorEmitted, peerClosed,
                   connectedClients, lastSeen, messages, tasks, ticks>>
    /\ failed' = failed \cup FailedSends(sent')

\* A handshake that ends by pushing the stored undelivered Messages of the
\* identity to its new connection.
HandshakeBroadcastPushesBacklog(c, ok) ==
    /\ Idle
    /\ hpc[c] = "broadcast"
    /\ IF ok
       THEN /\ sent' = [d \in Conns |->
                    broadcastOnlineUsers(NoSent, isOnline)[d] \o
                    (IF d = c /\ readyState[c] = "OPEN"
                     THEN [m \in 1..Len(SelectSeq(messages,
                                LAMBDA x : x.receiver = userId[c] /\ x.status = "sent"))
                           |-> Env("new_message", m, "", 0, {}, "")]
                     ELSE <<>>)]
            /\ hpc' = [hpc EXCEPT ![c] = "active"]
            /\ UNCHANGED crashed
       ELSE /\ crashed' = TRUE
            /\ sent' = NoSent
            /\ UNCHANGED hpc
    /\ finished' = NoTask
    /\ UNCHANGED <<readyState, decoded, userId, isAlive, closeCode, cpc, closeAt, dead, errorEmitted, peerClosed,
                   connectedClients, storeVars, tasks, ticks>>
    /\ failed' = failed \cup FailedSends(sent')

\* Resumption after `await User.find({isOnline: true})` in
\* broadcastOnlineUsers (STEP 5); then the listeners are attached.
HandshakeBroadcast(c, ok) ==
    /\ Idle
    /\ hpc[c] = "broadcast"
    /\ IF ok
       THEN /\ sent' = broadcastOnlineUsers(NoSent, isOnline)
            /\ hpc' = [hpc EXCEPT ![c] = "active"]
            /\ UNCHANGED crashed
       ELSE /\ crashed' = TRUE
            /\ sent' = NoSent
            /\ UNCHANGED hpc
    /\ finished' = NoTask
    /\ UNCHANGED <<readyState, decoded, userId, isAlive, closeCode, cpc, closeAt, dead, errorEmitted, peerClosed,
                   connectedClients, storeVars, tasks, ticks>>
    /\ failed' = failed \cup FailedSends(sent')

\* ======================================================= close handler
\* Frames of the peer are read from a socket that is open, or that the
\* server is closing with close(code); not once the peer has closed its
\* side (its close frame, be it the answer to the close of the server, or
\* the end of its stream), not after a frame that violated the protocol,
\* not after terminate(), and nothing comes from a dead transport.
Reads(c) ==
    /\ c \notin dead
    /\ c \notin errorEmitted
    /\ c \notin peerClosed
    /\ readyState[c] \in {"OPEN", "CLOSING"}
    /\ closeCode[c] # 1006

\* The peer of c closes its side: its close frame arrives -- the start of
\* a closing handshake, which ws answers, or the answer to the close(code)
\* of the server -- or its stream ends without one.  ws holds the socket as
\* CLOSING until the transport has ended and reads no further frame from
\* it.  No listener of the gateway runs; the socket stays in wss.clients
\* and in the registry.
OnCloseFrame(c) ==
    /\ SameChunk(c)
    /\ Reads(c)
    /\ readyState' = CloseSocket(readyState, c)
    /\ peerClosed' = peerClosed \cup {c}
    /\ sent' = NoSent
    /\ finished' = NoTask
    /\ UNCHANGED <<hpc, decoded, userId, isAlive, closeCode, cpc, closeAt, dead, errorEmitted,
                   connectedClients, storeVars, tasks, ticks, crashed>>
    /\ UNCHANGED failed

\* The transport of c has ended: the 'close' event fires once.  The
\* socket is CLOSING by then: the gateway called close(code) or
\* terminate(), or ws put it there itself when the peer closed its side,
\* on a protocol error or on a transport error; the close timer of ws
\* destroys a CLOSING socket whose transport does not end by itself.  A
\* dead transport signals nothing: while its socket is OPEN no 'close'
\* fires.  wss.clients drops c.  If the ws.on('close') listener is already
\* attached it runs up to its first await: connectedClients.delete, and
\* the update is issued with its new Date().  A close event that fires
\* before the listener is attached is lost.
OnClose(c) ==
    /\ Idle
    /\ readyState[c] = "CLOSING"
    /\ readyState' = [readyState EXCEPT ![c] = "CLOSED"]
    /\ failed' = failed \ {c}
    /\ IF hpc[c] = "active"
       THEN /\ InFlight < MaxInFlight
            /\ connectedClients' = [connectedClients EXCEPT ![userId[c]] = NoConn]
            /\ cpc' = [cpc EXCEPT ![c] = "setOffline"]
            /\ \E now \in Now : closeAt' = [closeAt EXCEPT ![c] = now]
       ELSE UNCHANGED <<connectedClients, cpc, closeAt>>
    /\ sent' = NoSent
    /\ finished' = NoTask
    /\ UNCHANGED <<hpc, decoded, userId, isAlive, closeCode, dead, errorEmitted, peerClosed, storeVars,
                   tasks, ticks, crashed>>

\* Resumption after `await User.findByIdAndUpdate(ws.userId, {isOnline:
\* false, lastSeen: new Date()})`: broadcastUserStatus, then the await inside
\* broadcastOnlineUsers.  Not guarded: a rejection exits the process.
CloseSetOffline(c, ok) ==
    /\ Idle
    /\ cpc[c] = "setOffline"
    /\ IF ok
       THEN /\ isOnline' = [isOnline EXCEPT ![userId[c]] = FALSE]
            /\ lastSeen' = [lastSeen EXCEPT ![userId[c]] = closeAt[c]]
            /\ closeAt' = [closeAt EXCEPT ![c] = 0]
            /\ sent' = broadcastUserStatus(NoSent, userId[c], FALSE)
            /\ cpc' = [cpc EXCEPT ![c] = "broadcast"]
            /\ UNCHANGED crashed
       ELSE /\ crashed' = TRUE
            /\ sent' = NoSent
            /\ UNCHANGED <<isOnline, lastSeen, cpc, closeAt>>
    /\ finished' = NoTask
    /\ UNCHANGED <<readyState, hpc, decoded, userId, isAlive, closeCode, dead, errorEmitted, peerClosed,
                   connectedClients, messages, tasks, ticks>>
    /\ failed' = failed \cup FailedSends(sent')

\* Resumption after `await User.find({isOnline: true})` of the close
\* handler's broadcastOnlineUsers.
CloseBroadcast(c, ok) ==
    /\ Idle
    /\ cpc[c] = "broadcast"
    /\ IF ok
       THEN /\ sent' = broadcastOnlineUsers(NoSent, isOnline)
            /\ cpc' = [cpc EXCEPT ![c] = "done"]
            /\ UNCHANGED crashed
       ELSE /\ crashed' = TRUE
            /\ sent' = NoSent
            /\ UNCHANGED cpc
    /\ finished' = NoTask
    /\ UNCHANGED <<readyState, hpc, decoded, userId, isAlive, closeCode, closeAt, dead, errorEmitted, peerClosed,
                   connectedClients, storeVars, tasks, ticks>>
    /\ failed' = failed \cup FailedSends(sent')

\* The transport of c dies without a close signal (the peer vanished, the
\* network dropped): the server still holds the socket as it was.
TransportDies(c) ==
    /\ Idle
    /\ readyState[c] \in {"OPEN", "CLOSING"}
    /\ c \notin dead
    /\ dead' = dead \cup {c}
    /\ sent' = NoSent
    /\ finished' = NoTask
    /\ UNCHANGED <<readyState, hpc, decoded, userId, isAlive, closeCode, cpc, closeAt, errorEmitted, peerClosed,
                   connectedClients, storeVars, tasks, ticks, crashed>>
    /\ UNCHANGED failed

\* The write error of a failed send surfaces on the socket of c: ws holds
\* the socket as CLOSING and destroys its transport; 'close' follows.  No
\* listener of the gateway runs.
OnSocketError(c) ==
    /\ Idle
    /\ c \in failed
    /\ readyState[c] = "OPEN"
    /\ readyState' = [readyState EXCEPT ![c] = "CLOSING"]
    /\ failed' = failed \ {c}
    /\ sent' = NoSent
    /\ finished' = NoTask
    /\ UNCHANGED <<hpc, decoded, userId, isAlive, closeCode, cpc, closeAt, dead, errorEmitted,
                   peerClosed, connectedClients, storeVars, tasks, ticks, crashed>>

\* ============================================================ heartbeat
\* One run of the setInterval callback over wss.clients: terminate the
\* clients whose isAlive is false, mark the others not alive and ping them.
\* terminate() destroys the transport of a socket whatever its state.  The
\* ping of an OPEN socket is a send: it fails on a dead transport.
heartbeatInterval ==
    /\ Idle
    /\ ticks < MaxTicks
    /\ ticks' = ticks + 1
    /\ readyState' = [c \in Conns |->
            IF c \in wssClients /\ isAlive[c] = "false" THEN "CLOSING"
            ELSE readyState[c]]
    /\ closeCode' = [c \in Conns |->
            IF c \in wssClients /\ isAlive[c] = "false"
            THEN 1006 ELSE closeCode[c]]
    /\ isAlive' = [c \in Conns |->
            IF c \in wssClients /\ isAlive[c] # "false" THEN "false"
            ELSE isAlive[c]]
    /\ failed' = failed \cup {c \in dead : readyState[c] = "OPEN" /\ isAlive[c] # "false"}
    /\ sent' = NoSent
    /\ finished' = NoTask
    /\ UNCHANGED <<hpc, decoded, userId, cpc, closeAt, dead, errorEmitted, peerClosed, connectedClients,
                   storeVars, tasks, crashed>>

\* ws.on('pong'): the client answered the ping.  The pong can be a frame
\* of the chunk whose earlier frames are being handled.
OnPong(c) ==
    /\ SameChunk(c)
    /\ Reads(c)
    /\ hpc[c] = "active"
    /\ isAlive[c] = "false"
    /\ isAlive' = [isAlive EXCEPT ![c] = "true"]
    /\ sent' = NoSent
    /\ finished' = NoTask
    /\ UNCHANGED <<readyState, hpc, decoded, userId, closeCode, cpc, closeAt, dead, errorEmitted, peerClosed,
                   connectedClients, storeVars, tasks, ticks, crashed>>
    /\ UNCHANGED failed

\* The client of c answers the ping while the connection handler of c is
\* still suspended in the handshake: the 'pong' listener is attached last
\* (line 732), so the event has no listener and isAlive stays false.  The
\* observer records whose pong it was.
OnPongNoListener(c) ==
    /\ Idle
    /\ Reads(c)
    /\ hpc[c] \in {"findUser", "setOnline", "broadcast"}
    /\ isAlive[c] = "false"
    /\ sent' = NoSent
    /\ finished' = [NoTask EXCEPT !.conn = c, !.type = "pong"]
    /\ UNCHANGED <<connVars, connectedClients, storeVars, tasks, ticks, crashed>>
    /\ UNCHANGED failed

\* A frame that violates the WebSocket protocol arrives on c: ws stops
\* reading from the socket, closes it (CLOSING if it was OPEN) and emits
\* 'error'.  The ws.on('error') listener only logs; it is attached at the
\* end of the connection handler (line 721), and an 'error' event without
\* a listener is thrown: process.on('uncaughtException') exits the process.
OnError(c) ==
    /\ SameChunk(c)
    /\ Reads(c)
    /\ readyState' = CloseSocket(readyState, c)
    /\ errorEmitted' = errorEmitted \cup {c}
    /\ crashed' = (hpc[c] # "active")
    /\ sent' = NoSent
    /\ finished' = NoTask
    /\ UNCHANGED <<hpc, decoded, userId, isAlive, closeCode, cpc, closeAt, dead, peerClosed,
                   connectedClients, storeVars, tasks, ticks>>
    /\ UNCHANGED failed

\* ====================================================== message handler
\* Inbound payloads.  hasData: the parsed object has a `data` object; id:
\* data.receiverId (chat, typing) or data.senderId (mark_read); content:
\* data.content is a non-empty string.
Envelope(types, ids) ==
    [type : types \cap {"chat_message"}, hasData : {TRUE}, id : ids, content : BOOLEAN]
    \cup [type : types \cap {"typing_start", "typing_stop", "mark_read"},
          hasData : {TRUE}, id : ids, content : {FALSE}]
    \cup [type : types \cap {"chat_message", "typing_start", "mark_read"},
          hasData : {FALSE}, id : {""}, content : {FALSE}]
    \cup [type : types \cap {"get_online_users", "unknown", "unparseable"},
          hasData : {TRUE}, id : {""}, content : {FALSE}]

EnvelopeTypes == {"chat_message", "typing_start", "typing_stop", "mark_read",
                  "get_online_users", "unknown", "unparseable"}

Envelopes == Envelope(EnvelopeTypes, WireIds)

\* The chat_message and mark_read envelopes that pass validation and name a
\* user by either spelling of the id.
ChatEnvelopes ==
    {e \in Envelope({"chat_message", "mark_read"}, {"a", "b", "A"}) :
        e.hasData /\ (e.type = "chat_message" => e.content)}

\* A lookup that returns an entry of the Map whatever the key.
LookupFirstEntry(id) ==
    IF \E u \in Users : connectedClients[u] # NoConn
    THEN connectedClients[CHOOSE u \in Users : connectedClients[u] # NoConn]
    ELSE NoConn

\* A lookup that finds the entry of a user under either spelling of the id.
LookupEitherSpelling(id) == IF Cast(id) \in Users THEN connectedClients[Cast(id)] ELSE NoConn
\* connectedClients.get(id): the Map is keyed by the canonical id string.
Lookup(id) == IF id \in Users THEN connectedClients[id] ELSE NoConn

\* A lookup that takes any registry entry for a live connection.
IsOpenConnAnyEntry(rc) == rc # NoConn

\* `conn && conn.readyState === WebSocket.OPEN`
IsOpenConn(rc) == rc # NoConn /\ readyState[rc] = "OPEN"

To(c, env) == [to |-> c, env |-> env]

\* The envelopes of a list of sendToClient calls that reach a socket.
RECURSIVE Written(_)
Written(evs) ==
    IF evs = <<>> THEN <<>>
    ELSE LET p == Head(evs)
             w == sendToClient(NoSent, p.to, p.env)[p.to]
         IN  [k \in 1..Len(w) |-> To(p.to, w[k])] \o Written(Tail(evs))

RECURSIVE SendAll(_, _)
SendAll(st, evs) ==
    IF evs = <<>> THEN st
    ELSE SendAll(sendToClient(st, Head(evs).to, Head(evs).env), Tail(evs))

InvalidFormat == "Invalid message format. Please send valid JSON."

\* A dispatcher that drops what it does not recognise without an answer.
DispatchDropsUnknown(c, e) ==
    IF e.type \in {"unparseable", "unknown"} THEN [pc |-> "done", evs |-> <<>>]
    ELSE IF e.type = "get_online_users" THEN [pc |-> "find", evs |-> <<>>]
    ELSE [pc |-> "done", evs |-> <<To(c, ErrorEnv(InvalidFormat))>>]
\* What the synchronous prefix of the 'message' listener does with envelope
\* e on connection c: the sendToClient calls it makes and the await it
\* stops at ("done": nothing is left to do after it).  JSON.parse,
\* handleMessage and the validation of handleChatMessage /
\* handleTypingIndicator / handleMarkRead.
Dispatch(c, e) ==
    IF e.type = "unparseable" THEN
        [pc |-> "done", evs |-> <<To(c, ErrorEnv(InvalidFormat))>>]
    ELSE IF e.type = "unknown" THEN
        [pc |-> "done", evs |-> <<To(c, ErrorEnv("Unknown message type: unknown"))>>]
    ELSE IF e.type = "get_online_users" THEN
        [pc |-> "find", evs |-> <<>>]
    ELSE IF ~e.hasData THEN
        \* destructuring `undefined` throws inside the async handler: the
        \* listener is suspended at `await handleMessage` and its catch
        \* answers in a microtask
        [pc |-> "catch", evs |-> <<>>]
    ELSE IF e.type = "chat_message" THEN
        IF e.id = "" \/ ~e.content THEN
            [pc |-> "done",
             evs |-> <<To(c, ErrorEnv("Missing required fields: receiverId and content"))>>]
        ELSE IF e.id = userId[c] THEN
            [pc |-> "done", evs |-> <<To(c, ErrorEnv("Cannot send message to yourself"))>>]
        ELSE [pc |-> "create", evs |-> <<>>]
    ELSE IF e.type = "mark_read" THEN
        IF e.id = "" THEN
            [pc |-> "done", evs |-> <<To(c, ErrorEnv("Missing required field: senderId"))>>]
        ELSE [pc |-> "markRead", evs |-> <<>>]
    ELSE \* typing_start / typing_stop: handleTypingIndicator, no await
        IF e.id = "" THEN
            [pc |-> "done", evs |-> <<To(c, ErrorEnv("Missing required field: receiverId"))>>]
        ELSE IF IsOpenConn(Lookup(e.id)) THEN
            [pc |-> "done",
             evs |-> <<To(Lookup(e.id),
                          Env("typing_indicator", 0, userId[c],
                              IF e.type = "typing_start" THEN 1 ELSE 0, {}, ""))>>]
        ELSE [pc |-> "done", evs |-> <<>>]

\* Message.create calls that have been issued and not yet answered.
PendingCreates ==
    Cardinality({j \in 1..Len(tasks) : tasks[j].pc \in {"create", "restCreate"}})

\* An envelope arrives on c while the connection handler of c has not yet
\* attached the 'message' listener (it is suspended in the handshake, or it
\* rejected the connection): the event has no listener and nothing runs.
OnMessageNoListener(c, e) ==
    /\ Idle
    /\ Reads(c)
    /\ hpc[c] \notin {"new", "active"}
    /\ sent' = NoSent
    /\ finished' = NoTask
    /\ UNCHANGED <<connVars, connectedClients, storeVars, tasks, ticks, crashed>>
    /\ UNCHANGED failed

\* A 'message' listener that is attached as soon as the socket is accepted.
OnMessageListenerAtAccept(c, e) ==
    /\ SameChunk(c)
    /\ Reads(c)
    /\ \E now \in IF Dispatch(c, e).pc = "markRead" THEN Now ELSE {0} :
         LET d == Dispatch(c, e)
             t == [conn |-> c, user |-> "", type |-> e.type, id |-> e.id, pc |-> d.pc,
                   at |-> now, mid |-> 0,
                   out |-> Written(d.evs),
                   overtook |-> \E j \in 1..Len(tasks) : tasks[j].conn = c]
         IN  /\ IF d.pc = "done"
                THEN /\ finished' = t
                     /\ UNCHANGED tasks
                ELSE /\ InFlight < MaxInFlight
                     /\ d.pc = "create" => Len(messages) + PendingCreates < MaxMsgs
                     /\ tasks' = Append(tasks, [t EXCEPT !.overtook = FALSE])
                     /\ finished' = NoTask
             /\ sent' = SendAll(NoSent, d.evs)
    /\ UNCHANGED <<connVars, connectedClients, storeVars, ticks, crashed>>
    /\ failed' = failed \cup FailedSends(sent')
\* ws.on('message'): an envelope arrives on c; the listener runs up to its
\* first await: it issues the store call of the handler (Message.markAsRead
\* takes its new Date() here), or the handler throws and the catch is
\* queued.  The listener exists only once the handshake has finished.
OnMessage(c, e) ==
    /\ SameChunk(c)
    /\ Reads(c)
    /\ hpc[c] = "active"
    /\ \E now \in IF Dispatch(c, e).pc = "markRead" THEN Now ELSE {0} :
         LET d == Dispatch(c, e)
             t == [conn |-> c, user |-> "", type |-> e.type, id |-> e.id, pc |-> d.pc,
                   at |-> now, mid |-> 0,
                   out |-> Written(d.evs),
                   overtook |-> \E j \in 1..Len(tasks) : tasks[j].conn = c]
         IN  /\ IF d.pc = "done"
                THEN /\ finished' = t
                     /\ UNCHANGED tasks
                ELSE /\ InFlight < MaxInFlight
                     /\ d.pc = "create" => Len(messages) + PendingCreates < MaxMsgs
                     /\ tasks' = Append(tasks, [t EXCEPT !.overtook = FALSE])
                     /\ finished' = NoTask
             /\ sent' = SendAll(NoSent, d.evs)
    /\ UNCHANGED <<connVars, connectedClients, storeVars, ticks, crashed>>
    /\ failed' = failed \cup FailedSends(sent')

\* A handler segment of task i ends: it made the calls evs and now is at pc.
\* A task that returned leaves the suspended ones.
Without(i) == [j \in 1..(Len(tasks) - 1) |-> IF j < i THEN tasks[j] ELSE tasks[j + 1]]

Advance(i, pc, mid, evs) ==
    /\ LET t == [tasks[i] EXCEPT !.pc = pc, !.mid = mid, !.out = @ \o Written(evs),
                                 !.at = 0,
                                 !.overtook = pc = "done" /\
                                    \E j \in 1..(i - 1) : tasks[j].conn = tasks[i].conn]
       IN IF pc = "done"
          THEN /\ finished' = t
               /\ tasks' = Without(i)
          ELSE /\ tasks' = [tasks EXCEPT ![i] = t]
               /\ finished' = NoTask
    /\ sent' = SendAll(NoSent, evs)
    /\ failed' = failed \cup FailedSends(sent')

\* The microtask turns between the throw of a handler and the catch of the
\* 'message' listener.  handleTypingIndicator is synchronous: it throws
\* inside handleMessage and the rejection passes one await (line 679).
\* handleChatMessage and handleMarkRead are async: their rejection passes
\* the await of handleMessage (lines 788, 806) and then that of line 679.
CatchTurns(type) == IF type \in {"typing_start", "typing_stop"} THEN 1 ELSE 2

\* The catch of the 'message' listener (lines 679-683) after a handler
\* threw before its first await.  The catches of the frames of one chunk
\* run in the order of their microtasks: fewer turns first, and in arrival
\* order among those with the same number of turns.
ListenerCatch(i) ==
    /\ ~crashed
    /\ i \in 1..Len(tasks)
    /\ tasks[i].pc = "catch"
    /\ \A j \in 1..Len(tasks) :
          tasks[j].pc = "catch" /\ j # i =>
             \/ CatchTurns(tasks[j].type) > CatchTurns(tasks[i].type)
             \/ CatchTurns(tasks[j].type) = CatchTurns(tasks[i].type) /\ j > i
    /\ Advance(i, "done", 0, <<To(tasks[i].conn, ErrorEnv(InvalidFormat))>>)
    /\ UNCHANGED <<connVars, connectedClients, storeVars, ticks, crashed>>

NewMessage(s, r) ==
    [sender |-> s, receiver |-> r, status |-> "sent", isRead |-> FALSE, readAt |-> 0]

\* A handleChatMessage that confirms message_sent although the creation was
\* rejected.
ChatCreateAcksFailure(i, ok) ==
    /\ Idle
    /\ i \in 1..Len(tasks)
    /\ tasks[i].pc = "create"
    /\ LET c == tasks[i].conn
       IN IF ok
          THEN /\ messages' = Append(messages,
                                NewMessage(userId[c], Cast(tasks[i].id)))
               /\ Advance(i, "populate", Len(messages) + 1, <<>>)
          ELSE /\ Advance(i, "done", 0,
                    <<To(c, Env("message_sent", 0, tasks[i].id, 0, {}, "sent"))>>)
               /\ UNCHANGED messages
    /\ UNCHANGED <<connVars, connectedClients, isOnline, lastSeen, ticks, crashed>>

\* handleChatMessage, resumption after `await Message.create(...)`.
ChatCreate(i, ok) ==
    /\ Idle
    /\ i \in 1..Len(tasks)
    /\ tasks[i].pc = "create"
    /\ LET c == tasks[i].conn
       IN IF ok
          THEN /\ messages' = Append(messages,
                                NewMessage(userId[c], Cast(tasks[i].id)))
               /\ Advance(i, "populate", Len(messages) + 1, <<>>)
          ELSE /\ Advance(i, "done", 0,
                    <<To(c, ErrorEnv("Failed to send message. Please try again."))>>)
               /\ UNCHANGED messages
    /\ UNCHANGED <<connVars, connectedClients, isOnline, lastSeen, ticks, crashed>>

\* handleChatMessage, resumption after `await newMessage.populate(...)`:
\* message_sent to the sender, registry lookup, new_message to an open
\* receiver and then the await of the status update.
ChatPopulate(i, ok) ==
    /\ Idle
    /\ i \in 1..Len(tasks)
    /\ tasks[i].pc = "populate"
    /\ LET c == tasks[i].conn
           m == tasks[i].mid
           rc == Lookup(tasks[i].id)
           msgSent == To(c, Env("message_sent", m, tasks[i].id, 0, {}, "sent"))
       IN IF ~ok
          THEN Advance(i, "done", m,
                    <<To(c, ErrorEnv("Failed to send message. Please try again."))>>)
          ELSE IF IsOpenConn(rc)
          THEN Advance(i, "update", m,
                    <<msgSent, To(rc, Env("new_message", m, userId[c], 0, {}, ""))>>)
          ELSE Advance(i, "done", m, <<msgSent>>)
    /\ UNCHANGED <<connVars, connectedClients, storeVars, ticks, crashed>>

\* A handleChatMessage that reports the delivery whatever the status
\* update answered.
ChatUpdateAlwaysReports(i, ok) ==
    /\ Idle
    /\ i \in 1..Len(tasks)
    /\ tasks[i].pc = "update"
    /\ LET c == tasks[i].conn
           m == tasks[i].mid
       IN /\ messages' = IF ok THEN [messages EXCEPT ![m].status = "delivered"]
                         ELSE messages
          /\ Advance(i, "done", m,
                <<To(c, Env("message_delivered", m, "", 0, {}, ""))>>)
    /\ UNCHANGED <<connVars, connectedClients, isOnline, lastSeen, ticks, crashed>>
\* handleChatMessage, resumption after
\* `await Message.findByIdAndUpdate(newMessage._id, {status: 'delivered'})`.
ChatUpdate(i, ok) ==
    /\ Idle
    /\ i \in 1..Len(tasks)
    /\ tasks[i].pc = "update"
    /\ LET c == tasks[i].conn
           m == tasks[i].mid
       IN IF ok
          THEN /\ messages' = [messages EXCEPT ![m].status = "delivered"]
               /\ Advance(i, "done", m,
                    <<To(c, Env("message_delivered", m, "", 0, {}, ""))>>)
          ELSE /\ Advance(i, "done", m,
                    <<To(c, ErrorEnv("Failed to send message. Please try again."))>>)
               /\ UNCHANGED messages
    /\ UNCHANGED <<connVars, connectedClients, isOnline, lastSeen, ticks, crashed>>

\* A filter that matches the unread documents of the pair in both
\* directions.
UnreadEitherDirection(senderId, receiverId) ==
    {m \in 1..Len(messages) :
        /\ {messages[m].sender, messages[m].receiver} = {Cast(senderId), Cast(receiverId)}
        /\ ~messages[m].isRead}

\* Message.markAsRead(senderId, receiverId): updateMany on the documents
\* with that sender, that receiver and isRead false; ids in the filter are
\* cast.  The matched documents ...
Unread(senderId, receiverId) ==
    {m \in 1..Len(messages) :
        /\ messages[m].sender = Cast(senderId)
        /\ messages[m].receiver = Cast(receiverId)
        /\ ~messages[m].isRead}

\* An update that stamps the documents and leaves their isRead flag.
markAsReadKeepsFlag(senderId, receiverId, now) ==
    [m \in 1..Len(messages) |->
        IF m \in Unread(senderId, receiverId)
        THEN [messages[m] EXCEPT !.readAt = now, !.status = "read"]
        ELSE messages[m]]

\* ... and the collection after the update, readAt being the one
\* new Date() of the call.
markAsRead(senderId, receiverId, now) ==
    [m \in 1..Len(messages) |->
        IF m \in Unread(senderId, receiverId)
        THEN [messages[m] EXCEPT !.isRead = TRUE, !.readAt = now, !.status = "read"]
        ELSE messages[m]]

\* handleMarkRead, resumption after `await Message.markAsRead(...)`: the
\* update lands with the time taken when it was issued.
MarkReadResume(i, ok) ==
    /\ Idle
    /\ i \in 1..Len(tasks)
    /\ tasks[i].pc = "markRead"
    /\ LET c == tasks[i].conn
           sid == tasks[i].id
           n == Cardinality(Unread(sid, userId[c]))
           sc == Lookup(sid)
           success == To(c, Env("mark_read_success", 0, sid, n, {}, ""))
       IN IF ok
          THEN /\ messages' = markAsRead(sid, userId[c], tasks[i].at)
               /\ Advance(i, "done", 0,
                    IF IsOpenConn(sc)
                    THEN <<To(sc, Env("messages_read", 0, userId[c], 0, {}, "")), success>>
                    ELSE <<success>>)
          ELSE /\ Advance(i, "done", 0,
                    <<To(c, ErrorEnv("Failed to mark messages as read."))>>)
               /\ UNCHANGED <<messages>>
    /\ UNCHANGED <<connVars, connectedClients, isOnline, lastSeen, ticks, crashed>>

\* A get_online_users that answers with a broadcast to every open client.
OnlineUsersResumeBroadcasts(i, ok) ==
    /\ Idle
    /\ i \in 1..Len(tasks)
    /\ tasks[i].pc = "find"
    /\ Advance(i, "done", 0,
            IF ok THEN [k \in 1..Cardinality({d \in Conns : readyState[d] = "OPEN"}) |->
                          To(CHOOSE d \in Conns :
                                /\ readyState[d] = "OPEN"
                                /\ Cardinality({x \in Conns : readyState[x] = "OPEN" /\ x < d}) = k - 1,
                             OnlineUsersEnv(isOnline))]
            ELSE <<To(tasks[i].conn, ErrorEnv(InvalidFormat))>>)
    /\ UNCHANGED <<connVars, connectedClients, storeVars, ticks, crashed>>
\* sendOnlineUsersToClient, resumption after `await User.find({isOnline:
\* true})`.  A rejection propagates to the catch of the 'message' listener.
OnlineUsersResume(i, ok) ==
    /\ Idle
    /\ i \in 1..Len(tasks)
    /\ tasks[i].pc = "find"
    /\ Advance(i, "done", 0,
            IF ok THEN <<To(tasks[i].conn, OnlineUsersEnv(isOnline))>>
            ELSE <<To(tasks[i].conn, ErrorEnv(InvalidFormat))>>)
    /\ UNCHANGED <<connVars, connectedClients, storeVars, ticks, crashed>>

\* ================================================================= REST
\* POST /api/messages accepts the body of user u: fields present, receiver
\* document found, receiverId not the string of u's id.
RestAccepts(u, rid, content) ==
    /\ rid # ""
    /\ content
    /\ Cast(rid) \in Users
    /\ rid # u

\* A segment of the REST handler that is task i ends at pc; a handler that
\* has answered leaves the suspended ones.  REST handlers write to no socket.
RestAdvance(i, pc, mid) ==
    /\ tasks' = IF pc = "done" THEN Without(i)
                ELSE [tasks EXCEPT ![i] = [@ EXCEPT !.pc = pc, !.mid = mid, !.at = 0]]
    /\ sent' = NoSent
    /\ finished' = NoTask
    /\ UNCHANGED failed

RestTask(u, type, id, pc, at) ==
    [NoTask EXCEPT !.user = u, !.type = type, !.id = id, !.pc = pc, !.at = at]

\* sendMessage (REST), up to `await User.findById(receiverId)`.  A body
\* without receiverId or content is answered 400 at once and nothing
\* changes: no step.
sendMessage(u, rid, content) ==
    /\ Idle
    /\ rid # "" /\ content
    /\ InFlight < MaxInFlight
    /\ tasks' = Append(tasks, RestTask(u, "rest_send", rid, "restFind", 0))
    /\ sent' = NoSent
    /\ finished' = NoTask
    /\ UNCHANGED <<connVars, connectedClients, storeVars, ticks, crashed>>
    /\ UNCHANGED failed

\* sendMessage, resumption after `await User.findById(receiverId)`: 404 for
\* an unknown receiver, 400 for the sender's own id, else Message.create is
\* issued.  A rejection goes to next(error).
sendMessageFound(i, ok) ==
    /\ Idle
    /\ i \in 1..Len(tasks)
    /\ tasks[i].pc = "restFind"
    /\ IF ok /\ RestAccepts(tasks[i].user, tasks[i].id, TRUE)
       THEN /\ Len(messages) + PendingCreates < MaxMsgs
            /\ RestAdvance(i, "restCreate", 0)
       ELSE RestAdvance(i, "done", 0)
    /\ UNCHANGED <<connVars, connectedClients, storeVars, ticks, crashed>>

\* A REST send that also pushes new_message to the open connection of the
\* receiver.
sendMessageNotifies(i, ok) ==
    /\ Idle
    /\ i \in 1..Len(tasks)
    /\ tasks[i].pc = "restCreate"
    /\ IF ok
       THEN /\ messages' = Append(messages, NewMessage(tasks[i].user, Cast(tasks[i].id)))
            /\ tasks' = [tasks EXCEPT ![i] = [@ EXCEPT !.pc = "restPopulate",
                                                       !.mid = Len(messages) + 1]]
            /\ finished' = NoTask
            /\ sent' = IF IsOpenConn(Lookup(Cast(tasks[i].id)))
                       THEN sendToClient(NoSent, Lookup(Cast(tasks[i].id)),
                                Env("new_message", Len(messages) + 1, tasks[i].user, 0, {}, ""))
                       ELSE NoSent
            /\ failed' = failed \cup FailedSends(sent')
       ELSE /\ RestAdvance(i, "done", 0)
            /\ UNCHANGED messages
    /\ UNCHANGED <<connVars, connectedClients, isOnline, lastSeen, ticks, crashed>>
\* sendMessage, resumption after `await Message.create(...)`: the Message is
\* stored; populate is issued.  Touches no socket.
sendMessageCreated(i, ok) ==
    /\ Idle
    /\ i \in 1..Len(tasks)
    /\ tasks[i].pc = "restCreate"
    /\ IF ok
       THEN /\ messages' = Append(messages, NewMessage(tasks[i].user, Cast(tasks[i].id)))
            /\ RestAdvance(i, "restPopulate", Len(messages) + 1)
       ELSE /\ RestAdvance(i, "done", 0)
            /\ UNCHANGED messages
    /\ UNCHANGED <<connVars, connectedClients, isOnline, lastSeen, ticks, crashed>>

\* sendMessage, resumption after `await message.populate(...)`: 201, or
\* next(error).
sendMessagePopulated(i) ==
    /\ Idle
    /\ i \in 1..Len(tasks)
    /\ tasks[i].pc = "restPopulate"
    /\ RestAdvance(i, "done", tasks[i].mid)
    /\ UNCHANGED <<connVars, connectedClients, storeVars, ticks, crashed>>

\* markMessagesAsRead (REST): PUT /api/messages/read/:userId by user u, up
\* to `await Message.markAsRead(userId, req.user._id)`, which takes its
\* new Date() when it is called.
markMessagesAsRead(u, sid) ==
    /\ Idle
    /\ InFlight < MaxInFlight
    /\ \E now \in Now :
          tasks' = Append(tasks, RestTask(u, "rest_read", sid, "restMark", now))
    /\ sent' = NoSent
    /\ finished' = NoTask
    /\ UNCHANGED <<connVars, connectedClients, storeVars, ticks, crashed>>
    /\ UNCHANGED failed

\* markMessagesAsRead, resumption: the update has landed (200), or
\* next(error).
markMessagesAsReadResume(i, ok) ==
    /\ Idle
    /\ i \in 1..Len(tasks)
    /\ tasks[i].pc = "restMark"
    /\ messages' = IF ok THEN markAsRead(tasks[i].id, tasks[i].user, tasks[i].at)
                   ELSE messages
    /\ RestAdvance(i, "done", 0)
    /\ UNCHANGED <<connVars, connectedClients, isOnline, lastSeen, ticks, crashed>>

\* Valid chat traffic (chat_message, mark_read) over connections of
\* existing users whose peers can close at any moment.  Store calls of the
\* connection and close handlers resolve here, those of the envelope
\* handlers may reject.
ChatConns == 1..(MaxConns - 1)

\* The clock does not advance during the run.
SameInstant ==
    /\ \A c \in Conns : closeAt'[c] <= 1
    /\ \A j \in 1..Len(tasks') : tasks'[j].at <= 1

\* At most one Message is created in a run.
OneMessage == (Len(messages) + PendingCreates)' <= 1

Next ==
    \/ \E c \in ChatConns, tok \in Users : Connection(c, "localhost", tok)
    \/ \E c \in Conns : HandshakeFindUser(c, TRUE)
    \/ \E c \in Conns : HandshakeSetOnline(c, TRUE)
    \/ \E c \in Conns : HandshakeBroadcast(c, TRUE)
    \/ \E c \in Conns : OnCloseFrame(c)
    \/ \E c \in Conns : OnClose(c)
    \/ \E c \in Conns : CloseSetOffline(c, TRUE)
    \/ \E c \in Conns : CloseBroadcast(c, TRUE)
    \/ \E c \in Conns, e \in ChatEnvelopes : OnMessage(c, e) /\ OneMessage
    \/ \E i \in 1..MaxInFlight, ok \in BOOLEAN : ChatCreate(i, ok)
    \/ \E i \in 1..MaxInFlight, ok \in BOOLEAN : ChatPopulate(i, ok)
    \/ \E i \in 1..MaxInFlight, ok \in BOOLEAN : ChatUpdate(i, ok)
    \/ \E i \in 1..MaxInFlight, ok \in BOOLEAN : MarkReadResume(i, ok)

Spec == Init /\ [][Next]_vars

\* Envelopes and REST requests that pass validation and name a user by
\* either spelling of the id.
RestIds == {"a", "b", "A"}

\* The REST endpoints next to chat_message and mark_read traffic, over
\* connections that stay open.  Store calls of the WebSocket handlers
\* resolve, those of the REST handlers may reject.
NextRest ==
    \/ \E c \in ChatConns, tok \in Users : Connection(c, "localhost", tok)
    \/ \E c \in Conns : HandshakeFindUser(c, TRUE)
    \/ \E c \in Conns : HandshakeSetOnline(c, TRUE)
    \/ \E c \in Conns : HandshakeBroadcast(c, TRUE)
    \/ \E c \in Conns, e \in ChatEnvelopes : OnMessage(c, e) /\ OneMessage
    \/ \E i \in 1..MaxInFlight : ChatCreate(i, TRUE)
    \/ \E i \in 1..MaxInFlight : ChatPopulate(i, TRUE)
    \/ \E i \in 1..MaxInFlight : ChatUpdate(i, TRUE)
    \/ \E i \in 1..MaxInFlight : MarkReadResume(i, TRUE)
    \/ \E u \in Users, rid \in RestIds : sendMessage(u, rid, TRUE)
    \/ \E i \in 1..MaxInFlight, ok \in BOOLEAN : sendMessageFound(i, ok) /\ OneMessage
    \/ \E i \in 1..MaxInFlight, ok \in BOOLEAN : sendMessageCreated(i, ok)
    \/ \E i \in 1..MaxInFlight : sendMessagePopulated(i)
    \/ \E u \in Users, sid \in RestIds : markMessagesAsRead(u, sid)
    \/ \E i \in 1..MaxInFlight, ok \in BOOLEAN : markMessagesAsReadResume(i, ok)

SpecRest == Init /\ [][NextRest]_vars

\* The connection life cycle with every handshake outcome and rejecting
\* store calls, without envelope traffic.
NextLife ==
    \/ \E c \in Conns, host \in Hosts, tok \in Tokens : Connection(c, host, tok)
    \/ \E c \in Conns, ok \in BOOLEAN : HandshakeFindUser(c, ok)
    \/ \E c \in Conns, ok \in BOOLEAN : HandshakeSetOnline(c, ok)
    \/ \E c \in Conns, ok \in BOOLEAN : HandshakeBroadcast(c, ok)
    \/ \E c \in Conns : OnCloseFrame(c)
    \/ \E c \in Conns : OnClose(c)
    \/ \E c \in Conns, ok \in BOOLEAN : CloseSetOffline(c, ok)
    \/ \E c \in Conns, ok \in BOOLEAN : CloseBroadcast(c, ok)
    \/ \E c \in Conns : OnError(c)

SpecLife == Init /\ [][NextLife]_vars

\* Envelopes that are answered without a call to the Message collection:
\* typing indicators, get_online_users, unknown and unparseable frames, and
\* chat_message / mark_read frames that fail validation.
FrameEnvelopes ==
    {e \in Envelopes :
        \/ e.type \notin {"chat_message", "mark_read"}
        \/ ~e.hasData
        \/ e.id = ""
        \/ (e.type = "chat_message" /\ ~e.content)}

\* Traffic of such envelopes between connections of existing users, with
\* Messages stored over REST.  A peer can start a close; the transports
\* do not end.
NextFrames ==
    \/ \E c \in ChatConns, tok \in Users : Connection(c, "localhost", tok)
    \/ \E c \in Conns : HandshakeFindUser(c, TRUE)
    \/ \E c \in Conns : HandshakeSetOnline(c, TRUE)
    \/ \E c \in Conns : HandshakeBroadcast(c, TRUE)
    \/ \E c \in Conns : OnCloseFrame(c)
    \/ \E c \in Conns, e \in FrameEnvelopes : OnMessage(c, e)
    \/ \E i \in 1..MaxInFlight : ListenerCatch(i)
    \/ \E c \in Conns, e \in FrameEnvelopes : OnMessageNoListener(c, e)
    \/ \E i \in 1..MaxInFlight, ok \in BOOLEAN : OnlineUsersResume(i, ok)
    \/ \E rid \in Users : sendMessage("a", rid, TRUE)
    \/ \E i \in 1..MaxInFlight : sendMessageFound(i, TRUE) /\ OneMessage
    \/ \E i \in 1..MaxInFlight : sendMessageCreated(i, TRUE)
    \/ \E i \in 1..MaxInFlight : sendMessagePopulated(i)

SpecFrames == Init /\ [][NextFrames]_vars
\* Documents a collection can hold between two users: sent, delivered, or
\* read at time 1.
StoredDocs ==
    UNION {{[sender |-> s, receiver |-> r, status |-> st.status,
             isRead |-> st.isRead, readAt |-> st.readAt] :
                r \in Users \ {s},
                st \in {[status |-> "sent", isRead |-> FALSE, readAt |-> 0],
                        [status |-> "delivered", isRead |-> FALSE, readAt |-> 0],
                        [status |-> "read", isRead |-> TRUE, readAt |-> 1]}} :
           s \in Users}

Collections == UNION {[1..n -> StoredDocs] : n \in 0..StoreMsgs}

\* The server starts on a store that already holds Messages.
InitStore ==
    /\ readyState = [c \in Conns |-> "NEW"]
    /\ hpc = [c \in Conns |-> "new"]
    /\ decoded = [c \in Conns |-> ""]
    /\ userId = [c \in Conns |-> ""]
    /\ isAlive = [c \in Conns |-> "undef"]
    /\ closeCode = [c \in Conns |-> 0]
    /\ cpc = [c \in Conns |-> "none"]
    /\ closeAt = [c \in Conns |-> 0]
    /\ dead = {}
    /\ errorEmitted = {}
    /\ peerClosed = {}
    /\ failed = {}
    /\ sent = NoSent
    /\ connectedClients = [u \in Users |-> NoConn]
    /\ isOnline = [u \in Users |-> FALSE]
    /\ lastSeen = [u \in Users |-> 0]
    /\ messages \in Collections
    /\ tasks = <<>>
    /\ finished = NoTask
    /\ ticks = 0
    /\ crashed = FALSE

\* mark_read traffic over such a store.
NextStore ==
    \/ \E c \in ChatConns, tok \in Users : Connection(c, "localhost", tok)
    \/ \E c \in Conns : HandshakeFindUser(c, TRUE)
    \/ \E c \in Conns : HandshakeSetOnline(c, TRUE)
    \/ \E c \in Conns : HandshakeBroadcast(c, TRUE)
    \/ \E c \in Conns, e \in Envelope({"mark_read"}, {"a", "b", "A"}) : OnMessage(c, e)
    \/ \E i \in 1..MaxInFlight : ListenerCatch(i)
    \/ \E i \in 1..MaxInFlight, ok \in BOOLEAN : MarkReadResume(i, ok)

SpecStore == InitStore /\ [][NextStore]_vars

\* Transports that die silently under an announced life cycle: three
\* connections of existing users, store calls that resolve, no heartbeat.
NextBroadcast ==
    \/ \E c \in Conns, tok \in Users : Connection(c, "localhost", tok)
    \/ \E c \in Conns : HandshakeFindUser(c, TRUE)
    \/ \E c \in Conns : HandshakeSetOnline(c, TRUE)
    \/ \E c \in Conns : HandshakeBroadcast(c, TRUE)
    \/ \E c \in Conns : TransportDies(c)
    \/ \E c \in Conns : OnSocketError(c)
    \/ \E c \in Conns : OnCloseFrame(c)
    \/ \E c \in Conns : OnClose(c)
    \/ \E c \in Conns : CloseSetOffline(c, TRUE)
    \/ \E c \in Conns : CloseBroadcast(c, TRUE)

SpecBroadcast == Init /\ [][NextBroadcast]_vars

\* The heartbeat over two connections of existing users whose transports
\* can die silently.  Store calls resolve.
NextHeartbeat ==
    \/ \E c \in ChatConns, tok \in Users : Connection(c, "localhost", tok)
    \/ \E c \in Conns : HandshakeFindUser(c, TRUE)
    \/ \E c \in Conns : HandshakeSetOnline(c, TRUE)
    \/ \E c \in Conns : HandshakeBroadcast(c, TRUE)
    \/ \E c \in Conns : TransportDies(c)
    \/ \E c \in Conns : OnSocketError(c)
    \/ \E c \in Conns : OnCloseFrame(c)
    \/ \E c \in Conns : OnClose(c)
    \/ \E c \in Conns : CloseSetOffline(c, TRUE)
    \/ \E c \in Conns : CloseBroadcast(c, TRUE)
    \/ heartbeatInterval
    \/ \E c \in Conns : OnPong(c)

SpecHeartbeat == Init /\ [][NextHeartbeat]_vars
\* Envelopes that pass validation and name a user by either spelling of
\* the id: chat_message, typing and mark_read.
RoutingEnvelopes ==
    {e \in Envelope({"chat_message", "typing_start", "typing_stop", "mark_read"},
                    {"a", "b", "A"}) :
        e.hasData /\ (e.type = "chat_message" => e.content)}

\* Routing of such envelopes between connections of existing users whose
\* peers can close at any moment, all within one instant of the clock.
\* Store calls of the envelope handlers may reject.
NextRouting ==
    \/ \E c \in ChatConns, tok \in Users : Connection(c, "localhost", tok)
    \/ \E c \in Conns : HandshakeFindUser(c, TRUE)
    \/ \E c \in Conns : HandshakeSetOnline(c, TRUE)
    \/ \E c \in Conns : HandshakeBroadcast(c, TRUE)
    \/ \E c \in Conns : OnCloseFrame(c)
    \/ \E c \in Conns : OnClose(c) /\ SameInstant
    \/ \E c \in Conns : CloseSetOffline(c, TRUE)
    \/ \E c \in Conns : CloseBroadcast(c, TRUE)
    \/ \E c \in Conns, e \in RoutingEnvelopes : OnMessage(c, e) /\ OneMessage /\ SameInstant
    \/ \E i \in 1..MaxInFlight, ok \in BOOLEAN : ChatCreate(i, ok)
    \/ \E i \in 1..MaxInFlight, ok \in BOOLEAN : ChatPopulate(i, ok)
    \/ \E i \in 1..MaxInFlight, ok \in BOOLEAN : ChatUpdate(i, ok)
    \/ \E i \in 1..MaxInFlight, ok \in BOOLEAN : MarkReadResume(i, ok)

SpecRouting == Init /\ [][NextRouting]_vars

\* Valid chat_message envelopes, up to MaxMsgs Messages, between
\* connections of existing users whose peers can close at any moment.
\* Store calls of the connection and close handlers resolve, those of
\* handleChatMessage may reject.
NextReceipts ==
    \/ \E c \in ChatConns, tok \in Users : Connection(c, "localhost", tok)
    \/ \E c \in Conns : HandshakeFindUser(c, TRUE)
    \/ \E c \in Conns : HandshakeSetOnline(c, TRUE)
    \/ \E c \in Conns : HandshakeBroadcast(c, TRUE)
    \/ \E c \in Conns : OnCloseFrame(c)
    \/ \E c \in Conns : OnClose(c)
    \/ \E c \in Conns : CloseSetOffline(c, TRUE)
    \/ \E c \in Conns : CloseBroadcast(c, TRUE)
    \/ \E c \in Conns, e \in {r \in ChatEnvelopes : r.type = "chat_message"} : OnMessage(c, e)
    \/ \E i \in 1..MaxInFlight, ok \in BOOLEAN : ChatCreate(i, ok)
    \/ \E i \in 1..MaxInFlight, ok \in BOOLEAN : ChatPopulate(i, ok)
    \/ \E i \in 1..MaxInFlight, ok \in BOOLEAN : ChatUpdate(i, ok)

SpecReceipts == Init /\ [][NextReceipts]_vars
\* The heartbeat against clients that answer their pings, with handshakes
\* that can last longer than a heartbeat period.  Store calls resolve.
NextProbe ==
    \/ \E c \in ChatConns, tok \in Users : Connection(c, "localhost", tok)
    \/ \E c \in Conns : HandshakeFindUser(c, TRUE)
    \/ \E c \in Conns : HandshakeSetOnline(c, TRUE)
    \/ \E c \in Conns : HandshakeBroadcast(c, TRUE)
    \/ \E c \in Conns : OnCloseFrame(c)
    \/ \E c \in Conns : OnClose(c)
    \/ \E c \in Conns : CloseSetOffline(c, TRUE)
    \/ \E c \in Conns : CloseBroadcast(c, TRUE)
    \/ heartbeatInterval
    \/ \E c \in Conns : OnPong(c)
    \/ \E c \in Conns : OnPongNoListener(c)
    \/ \E c \in Conns : OnError(c)
    \/ \E c \in Conns, e \in {r \in FrameEnvelopes : ~r.hasData} : OnMessage(c, e)
    \/ \E i \in 1..MaxInFlight : ListenerCatch(i)

SpecProbe == Init /\ [][NextProbe]_vars
\* chat_message envelopes with every receiverId a client can put on the
\* wire, the id of no user included.
AcceptEnvelopes == Envelope({"chat_message"}, WireIds)

\* The validation of handleChatMessage (lines 842-851) for sender u.
WsAccepts(u, rid, content) ==
    /\ rid # ""
    /\ content
    /\ rid # u

\* The two ways of sending a Message, WebSocket and REST, over the same
\* requests and connections that stay open.
NextAccept ==
    \/ \E c \in ChatConns, tok \in Users : Connection(c, "localhost", tok)
    \/ \E c \in Conns : HandshakeFindUser(c, TRUE)
    \/ \E c \in Conns : HandshakeSetOnline(c, TRUE)
    \/ \E c \in Conns : HandshakeBroadcast(c, TRUE)
    \/ \E c \in Conns, e \in AcceptEnvelopes : OnMessage(c, e) /\ OneMessage
    \/ \E i \in 1..MaxInFlight : ListenerCatch(i)
    \/ \E i \in 1..MaxInFlight, ok \in BOOLEAN : ChatCreate(i, ok)
    \/ \E i \in 1..MaxInFlight : ChatPopulate(i, TRUE)
    \/ \E i \in 1..MaxInFlight : ChatUpdate(i, TRUE)
    \/ \E u \in Users, rid \in WireIds, content \in BOOLEAN : sendMessage(u, rid, content)
    \/ \E i \in 1..MaxInFlight : sendMessageFound(i, TRUE) /\ OneMessage
    \/ \E i \in 1..MaxInFlight, ok \in BOOLEAN : sendMessageCreated(i, ok)
    \/ \E i \in 1..MaxInFlight : sendMessagePopulated(i)

SpecAccept == Init /\ [][NextAccept]_vars
\* Routing towards registry entries that are no longer open: connections
\* the heartbeat terminated, connections whose peer started a close and
\* connections closed during their handshake, all before their transport
\* has ended.  Store calls resolve.  The envelopes name the users by their
\* canonical ids, which makes a and b interchangeable: the first connection
\* is taken to be one of a.
NextStale ==
    \/ \E c \in ChatConns : \E tok \in IF c = 1 THEN {"a"} ELSE Users : Connection(c, "localhost", tok)
    \/ \E c \in Conns : HandshakeFindUser(c, TRUE)
    \/ \E c \in Conns : HandshakeSetOnline(c, TRUE)
    \/ \E c \in Conns : HandshakeBroadcast(c, TRUE)
    \/ \E c \in Conns : OnCloseFrame(c)
    \/ heartbeatInterval
    \/ \E c \in Conns, e \in {r \in RoutingEnvelopes : r.id \in Users} : OnMessage(c, e) /\ OneMessage
    \/ \E i \in 1..MaxInFlight : ChatCreate(i, TRUE)
    \/ \E i \in 1..MaxInFlight : ChatPopulate(i, TRUE)
    \/ \E i \in 1..MaxInFlight : ChatUpdate(i, TRUE)
    \/ \E i \in 1..MaxInFlight : MarkReadResume(i, TRUE)

SpecStale == Init /\ [][NextStale]_vars
\* ================================================================ claims
\* A registration step: the connection handler of c resumes from
\* User.findById and installs c in the registry.
Registers(c) == hpc[c] = "findUser" /\ hpc'[c] = "setOnline"

\* C1 as stated: when a handshake for u reaches registration while u has a
\* registered connection, that prior connection is closed with code 4005,
\* whatever state it is in.
C1_PriorClosedWith4005 ==
    [][\A c \in Conns :
          Registers(c) =>
             LET old == connectedClients[userId'[c]]
             IN  old # NoConn => closeCode'[old] = 4005]_vars

\* C1: the registry maps each identity to at most one connection, an entry
\* being a connection of that identity; and when a handshake for u reaches
\* registration while u has a registered connection, that prior connection,
\* if it is still open, is closed with code 4005 before the new one is
\* installed as registry[u]; a prior connection that is already closing or
\* closed stays as it is, with the close it has.
C1_SupersedeOnRegister ==
    [][/\ \A u \in Users :
             connectedClients'[u] # NoConn => userId'[connectedClients'[u]] = u
       /\ \A c \in Conns :
             Registers(c) =>
                LET u == userId'[c]
                    old == connectedClients[u]
                IN  /\ u \in Users
                    /\ connectedClients'[u] = c
                    /\ \A v \in Users \ {u} : connectedClients'[v] = connectedClients[v]
                    /\ old # NoConn =>
                         /\ old # c
                         /\ readyState'[old] # "OPEN"
                         /\ readyState[old] = "OPEN" =>
                               /\ readyState'[old] = "CLOSING"
                               /\ closeCode'[old] = 4005
                         /\ readyState[old] # "OPEN" =>
                               /\ readyState'[old] = readyState[old]
                               /\ closeCode'[old] = closeCode[old]]_vars

\* A second connection of an identity has just been registered and the
\* first one was closed with 4005.
C1_Witness ==
    \E c \in Conns, old \in Conns :
        /\ c # old
        /\ hpc[c] = "setOnline"
        /\ userId[old] = userId[c]
        /\ connectedClients[userId[c]] = c
        /\ closeCode[old] = 4005
        /\ readyState[old] = "CLOSING"

\* The 'close' event of c fires.
Closes(c) == readyState[c] # "CLOSED" /\ readyState'[c] = "CLOSED"

\* Another connection of the identity of c holds the registry entry.
Superseded(c) ==
    /\ userId[c] # ""
    /\ connectedClients[userId[c]] \notin {c, NoConn}

\* C2: the close handling of a connection removes the registry entry of its
\* identity only if the entry is that connection: the late close of a
\* superseded connection leaves the registry entry and the presence flag of
\* the identity as they are.
C2_LateCloseKeepsNewer ==
    [][\A c \in Conns :
          /\ (Closes(c) /\ Superseded(c)) =>
                connectedClients'[userId[c]] = connectedClients[userId[c]]
          /\ (cpc[c] = "setOffline" /\ cpc'[c] # "setOffline" /\ Superseded(c)) =>
                isOnline'[userId[c]] = isOnline[userId[c]]]_vars
Rank(status) == CASE status = "sent" -> 1 [] status = "delivered" -> 2 [] status = "read" -> 3

\* C3: the status of a Message never moves backwards along sent ->
\* delivered -> read, whatever the interleaving of the chat delivery path
\* and a mark_read (WebSocket or REST) on the same Message.
C3_StatusMonotonic ==
    [][\A m \in 1..Len(messages) :
          Rank(messages'[m].status) >= Rank(messages[m].status)]_vars

\* The types and the mids of the envelopes a task has written.
TypesOf(out) == [k \in 1..Len(out) |-> out[k].env.type]
Wrote(out, type) == \E k \in 1..Len(out) : out[k].env.type = type

\* C4: a chat_message whose receiver -- the user its receiverId names, the
\* receiver of the Message -- has a registered open connection when the
\* handler looks it up puts exactly one new_message on that connection and
\* goes on to the status update; a sender that stays open receives
\* message_sent and then message_delivered for that Message, in this order,
\* when the store calls resolve.
C4_OnlineDelivery ==
    /\ [][\A i \in 1..Len(tasks), rc \in Conns :
            LET t == tasks[i] IN
            (/\ t.pc = "populate"
             /\ Cast(t.id) \in Users
             /\ connectedClients[Cast(t.id)] = rc
             /\ readyState[rc] = "OPEN"
             /\ ChatPopulate(i, TRUE))
            => /\ Len(sent'[rc]) = 1
               /\ sent'[rc][1].type = "new_message"
               /\ sent'[rc][1].mid = t.mid
               /\ sent'[rc][1].uid = userId[t.conn]
               /\ \A d \in Conns \ {rc, t.conn} : sent'[d] = <<>>
               /\ Len(tasks') = Len(tasks)
               /\ tasks'[i].pc = "update"]_vars
    /\ [](LET t == finished IN
          (/\ t.type = "chat_message"
           /\ \/ Wrote(t.out, "message_delivered")
              \/ /\ Wrote(t.out, "new_message")
                 /\ readyState[t.conn] = "OPEN"
                 /\ ~Wrote(t.out, "error"))
          => /\ TypesOf(t.out) = <<"message_sent", "new_message", "message_delivered">>
             /\ t.out[1].to = t.conn
             /\ t.out[3].to = t.conn
             /\ userId[t.out[2].to] = Cast(t.id)
             /\ \A k \in 1..3 : t.out[k].env.mid = t.mid
             /\ t.mid \in 1..Len(messages))

\* C5: a chat_message whose receiver has no registered open connection when
\* the handler looks it up: the Message is created with status sent and
\* isRead false, the sender receives message_sent only, no connection
\* receives new_message, and the handler returns without touching the
\* Message again.
C5_OfflineOnlySent ==
    [][\A i \in 1..Len(tasks) :
          LET t == tasks[i]
              online == /\ t.id \in Users
                        /\ connectedClients[t.id] # NoConn
                        /\ readyState[connectedClients[t.id]] = "OPEN"
          IN  /\ (t.pc = "create" /\ ChatCreate(i, TRUE)) =>
                    /\ Len(messages') = Len(messages) + 1
                    /\ messages'[Len(messages')].status = "sent"
                    /\ ~messages'[Len(messages')].isRead
              /\ (t.pc = "populate" /\ ~online /\ ChatPopulate(i, TRUE)) =>
                    /\ messages' = messages
                    /\ Len(tasks') = Len(tasks) - 1
                    /\ finished'.conn = t.conn
                    /\ finished'.mid = t.mid
                    /\ \A d \in Conns \ {t.conn} : sent'[d] = <<>>
                    /\ TypesOf(finished'.out) =
                          IF readyState[t.conn] = "OPEN" THEN <<"message_sent">> ELSE <<>>
                    /\ Len(sent'[t.conn]) = Len(finished'.out)
                    /\ \A k \in 1..Len(sent'[t.conn]) :
                          /\ sent'[t.conn][k].type = "message_sent"
                          /\ sent'[t.conn][k].mid = t.mid]_vars

\* A chat_message to a receiver without a connection returned with
\* message_sent only, the Message still sent and unread.
C5_Witness ==
    /\ finished.type = "chat_message"
    /\ TypesOf(finished.out) = <<"message_sent">>
    /\ finished.id \in Users
    /\ connectedClients[finished.id] = NoConn
    /\ messages[finished.mid].status = "sent"
    /\ ~messages[finished.mid].isRead

\* C6: no Message has the same identity as sender and receiver: a
\* chat_message (WebSocket) or POST /api/messages (REST) whose receiverId
\* names the sender creates none.
C6_NoSelfMessage ==
    \A m \in 1..Len(messages) : messages[m].sender # messages[m].receiver

\* C7: a Message with isRead true has readAt set and status read, in every
\* reachable state.
C7_ReadHasReadAt ==
    \A m \in 1..Len(messages) :
        messages[m].isRead => messages[m].readAt # 0 /\ messages[m].status = "read"

\* C8: a mark_read for sender s by receiver r that finds N unread Messages
\* sets all of them to isRead true, status read and one common readAt,
\* leaves every other Message alone and reports markedCount N; no Message
\* from s to r is unread afterwards, so that a mark_read that follows
\* immediately finds none, reports 0 and changes nothing.
C8_MarkReadAll ==
    [][\A i \in 1..Len(tasks) :
          LET t == tasks[i]
              r == userId[t.conn]
              From(ms) == {m \in 1..Len(ms) : /\ ms[m].sender = Cast(t.id)
                                              /\ ms[m].receiver = r
                                              /\ ~ms[m].isRead}
              U == From(messages)
          IN  (t.pc = "markRead" /\ finished'.type = "mark_read" /\ MarkReadResume(i, TRUE)) =>
                /\ Len(messages') = Len(messages)
                /\ \A m \in U : /\ messages'[m].isRead
                                /\ messages'[m].status = "read"
                                /\ messages'[m].readAt > 0
                /\ \A m1 \in U, m2 \in U : messages'[m1].readAt = messages'[m2].readAt
                /\ \A m \in (1..Len(messages)) \ U : messages'[m] = messages[m]
                /\ From(messages') = {}
                /\ readyState[t.conn] = "OPEN" =>
                      LET last == finished'.out[Len(finished'.out)]
                      IN  /\ last.to = t.conn
                          /\ last.env.type = "mark_read_success"
                          /\ last.env.n = Cardinality(U)]_vars

\* A mark_read found two unread Messages of its pair and reported 2: both
\* are read now, with one readAt.
C8_Witness ==
    /\ finished.type = "mark_read"
    /\ Wrote(finished.out, "mark_read_success")
    /\ finished.out[Len(finished.out)].env.n = 2
    /\ Len(messages) = 2
    /\ \A m \in 1..2 :
          /\ messages[m].sender = Cast(finished.id)
          /\ messages[m].receiver = userId[finished.conn]
          /\ messages[m].isRead
          /\ messages[m].status = "read"
          /\ messages[m].readAt = messages[1].readAt
    /\ messages[1].readAt > 0

\* C9: when a registered connection of u terminates, its close handling
\* removes u from the registry, then sets the presence of u offline with a
\* last-seen time and sends user_offline for u to every open connection
\* that is not owned by u and to no other, then sends the snapshot of the
\* online users to every open connection.
C9_CloseHandling ==
    [][\A c \in Conns :
          LET u == userId[c] IN
          /\ (Closes(c) /\ u \in Users /\ connectedClients[u] = c) =>
                /\ connectedClients'[u] = NoConn
                /\ \A v \in Users \ {u} : connectedClients'[v] = connectedClients[v]
                /\ cpc'[c] = "setOffline"
          /\ (cpc[c] = "setOffline" /\ cpc'[c] = "broadcast") =>
                /\ ~isOnline'[u]
                /\ lastSeen'[u] > 0
                /\ connectedClients' = connectedClients
                /\ \A d \in Conns :
                      sent'[d] = IF readyState[d] = "OPEN" /\ userId[d] # u
                                 THEN <<Env("user_offline", 0, u, 0, {}, "")>>
                                 ELSE <<>>
          /\ (cpc[c] = "broadcast" /\ cpc'[c] = "done") =>
                LET online == {v \in Users : isOnline[v]} IN
                \A d \in Conns :
                      sent'[d] = IF readyState[d] = "OPEN"
                                 THEN <<Env("online_users", 0, "", Cardinality(online),
                                            online, "")>>
                                 ELSE <<>>]_vars

\* C10: the envelopes of one connection are handled in arrival order: no
\* envelope has an effect (an envelope written, a Message created) while an
\* envelope that arrived before it on the same connection is still being
\* handled.
C10_ArrivalOrder ==
    /\ finished.overtook => finished.out = <<>> /\ finished.mid = 0
    /\ \A i \in 1..Len(tasks), j \in 1..Len(tasks) :
          (i < j /\ tasks[i].conn = tasks[j].conn) =>
              tasks[j].out = <<>> /\ tasks[j].mid = 0
\* The handshake of c ends in a rejection with the given close code: the
\* socket is closed with that code; only error envelopes are written, and
\* only to c; registry and presence stay.
RejectsWith(c, code) ==
    /\ hpc'[c] = "rejected"
    /\ userId'[c] = ""
    /\ readyState'[c] \in {"CLOSING", "CLOSED"}
    /\ closeCode'[c] = code
    /\ \A k \in 1..Len(sent'[c]) : sent'[c][k].type = "error"
    /\ \A d \in Conns \ {c} : sent'[d] = <<>> /\ readyState'[d] = readyState[d]
    /\ connectedClients' = connectedClients
    /\ isOnline' = isOnline
    /\ lastSeen' = lastSeen

\* C11: a handshake that fails closes the connection with the code of its
\* cause -- 4001 no token, 4002 invalid token, 4003 identity not found,
\* 4004 store error during the lookup --, touches neither the registry nor
\* any presence flag, sends no connection_established, and the rejected
\* connection stays rejected: it is never registered or welcomed later.
C11_RejectedHandshake ==
    [][\A c \in Conns :
          /\ (hpc[c] = "new" /\ \E host \in Hosts : Connection(c, host, "none")) =>
                RejectsWith(c, 4001)
          /\ (hpc[c] = "new" /\ \E host \in Hosts : Connection(c, host, "bad")) =>
                RejectsWith(c, 4002)
          /\ (hpc[c] = "findUser" /\ decoded[c] \notin Users
                /\ HandshakeFindUser(c, TRUE)) => RejectsWith(c, 4003)
          /\ (hpc[c] = "findUser" /\ HandshakeFindUser(c, FALSE)) => RejectsWith(c, 4004)
          /\ hpc[c] = "rejected" =>
                /\ hpc'[c] = "rejected"
                /\ userId'[c] = ""
                /\ closeCode'[c] = closeCode[c]
                /\ \A u \in Users : connectedClients'[u] # c
                /\ \A k \in 1..Len(sent'[c]) :
                      sent'[c][k].type # "connection_established"]_vars

\* C12: a successful handshake for u runs in this order: the connection is
\* installed in the registry; the presence flag of u is set, then
\* connection_established goes to the new connection and user_online for
\* u to the other connections; then the online_users snapshot goes to all
\* connections.  So a connection receives no online_users envelope before
\* its connection_established.
C12_HandshakeOrder ==
    [][\A c \in Conns :
          /\ Registers(c) =>
                /\ connectedClients'[userId'[c]] = c
                /\ isOnline' = isOnline
                /\ sent' = NoSent
          /\ (hpc[c] = "setOnline" /\ hpc'[c] = "broadcast") =>
                /\ isOnline'[userId[c]]
                /\ sent'[c] = IF readyState[c] = "OPEN"
                              THEN <<Env("connection_established", 0, userId[c], 0, {}, "")>>
                              ELSE <<>>
                /\ \A d \in Conns \ {c} :
                      sent'[d] = IF readyState[d] = "OPEN" /\ userId[d] # userId[c]
                                 THEN <<Env("user_online", 0, userId[c], 0, {}, "")>>
                                 ELSE <<>>
          /\ (hpc[c] = "broadcast" /\ hpc'[c] = "active") =>
                \A d \in Conns :
                      Len(sent'[d]) = (IF readyState[d] = "OPEN" THEN 1 ELSE 0)
                      /\ \A k \in 1..Len(sent'[d]) : sent'[d][k].type = "online_users"
          /\ (\E k \in 1..Len(sent'[c]) : sent'[c][k].type = "online_users") =>
                hpc[c] \in {"broadcast", "active"}]_vars
\* C13: a handshake pushes no backlog: the steps of a connection handler
\* write only connection_established, user_online and online_users
\* envelopes, and a new_message is written only by the chat_message
\* handler of its Message, at the lookup that follows the creation -- never
\* for a Message whose handler has returned.
C13_NoBacklogPush ==
    [][/\ \A c \in Conns :
             hpc'[c] # hpc[c] =>
                \A d \in Conns : \A k \in 1..Len(sent'[d]) :
                    sent'[d][k].type \in
                        {"connection_established", "user_online", "online_users"}
       /\ \A d \in Conns : \A k \in 1..Len(sent'[d]) :
             sent'[d][k].type = "new_message" =>
                \E i \in 1..Len(tasks) :
                    /\ tasks[i].pc = "populate"
                    /\ tasks[i].mid = sent'[d][k].mid
                    /\ Len(tasks') = Len(tasks)
                    /\ tasks'[i].pc = "update"]_vars

\* An identity finished its handshake while a Message addressed to it,
\* stored when it had no connection, is still in status sent: the
\* handshake ended with the snapshot and no new_message.
C13_Witness ==
    \E c \in Conns, m \in 1..Len(messages) :
        /\ hpc[c] = "active"
        /\ Len(sent[c]) = 1
        /\ sent[c][1].type = "online_users"
        /\ tasks = <<>>
        /\ messages[m].receiver = userId[c]
        /\ messages[m].status = "sent"
        /\ ~messages[m].isRead
        /\ \A d \in Conns \ {c} : userId[d] # userId[c]
\* An envelope of a known type whose required fields are missing.
FailsValidation(e) ==
    \/ e.type = "chat_message" /\ (~e.hasData \/ e.id = "" \/ ~e.content)
    \/ e.type \in {"typing_start", "typing_stop", "mark_read"} /\ (~e.hasData \/ e.id = "")

\* C14: an envelope that fails validation, arriving on an open connection,
\* produces exactly one error envelope, to the sender, and changes nothing
\* else: the registry, the presence flags, the Messages, the connections
\* (the sender stays open) and the pending handlers are as before, and no
\* other connection is written to.  An envelope without a data object is
\* answered by the catch of the listener, once the frames of its chunk
\* have been read: reading it writes nothing and changes nothing, and the
\* catch writes that one error to a sender that is still open.
C14_ValidationFailure ==
    [][/\ \A c \in Conns \cap {finished'.conn}, e \in FrameEnvelopes :
             (/\ finished'.type = e.type
              /\ FailsValidation(e)
              /\ readyState[c] = "OPEN"
              /\ OnMessage(c, e)) =>
                /\ Len(sent'[c]) = 1
                /\ sent'[c][1].type = "error"
                /\ \A d \in Conns \ {c} : sent'[d] = <<>>
                /\ finished'.conn = c
                /\ finished'.out = <<To(c, sent'[c][1])>>
                /\ readyState'[c] = "OPEN"
                /\ UNCHANGED <<connectedClients, isOnline, lastSeen, messages,
                               readyState, hpc, cpc, userId, closeCode, tasks>>
       /\ \A c \in Conns, e \in FrameEnvelopes :
             (/\ ~e.hasData
              /\ finished' = NoTask
              /\ OnMessage(c, e)) =>
                /\ sent' = NoSent
                /\ tasks' = Append(tasks, tasks'[Len(tasks')])
                /\ tasks'[Len(tasks')].pc = "catch"
                /\ UNCHANGED <<connectedClients, isOnline, lastSeen, messages,
                               readyState, hpc, cpc, userId, closeCode>>
       /\ \A i \in 1..Len(tasks) :
             (/\ tasks[i].pc = "catch"
              /\ readyState[tasks[i].conn] = "OPEN"
              /\ ListenerCatch(i)) =>
                /\ Len(sent'[tasks[i].conn]) = 1
                /\ sent'[tasks[i].conn][1].type = "error"
                /\ \A d \in Conns \ {tasks[i].conn} : sent'[d] = <<>>
                /\ finished'.conn = tasks[i].conn
                /\ finished'.out = <<To(tasks[i].conn, sent'[tasks[i].conn][1])>>
                /\ tasks' = Without(i)
                /\ UNCHANGED <<connectedClients, isOnline, lastSeen, messages,
                               readyState, hpc, cpc, userId, closeCode>>]_vars

\* A typing_start without receiverId was answered with one error while the
\* sender and another identity are registered and a Message is stored.
C14_Witness ==
    /\ finished.type = "typing_start"
    /\ finished.id = ""
    /\ TypesOf(finished.out) = <<"error">>
    /\ sent[finished.conn] = <<ErrorEnv("Missing required field: receiverId")>>
    /\ readyState[finished.conn] = "OPEN"
    /\ connectedClients[userId[finished.conn]] = finished.conn
    /\ \E d \in Conns \ {finished.conn} : hpc[d] = "active" /\ readyState[d] = "OPEN"
    /\ messages # <<>>
\* C15: chat routing persists first: every message_sent and new_message
\* names a Message that was stored before the envelope was written; a
\* rejected creation stores nothing and yields one error envelope to the
\* sender and nothing else; a failure of the later steps of the handler
\* leaves the Messages as they are, and no step ever removes a Message or
\* changes its sender or receiver.
C15_PersistFirst ==
    [][/\ \A d \in Conns : \A k \in 1..Len(sent'[d]) :
             sent'[d][k].type \in {"message_sent", "new_message"} =>
                sent'[d][k].mid \in 1..Len(messages)
       /\ \A i \in 1..Len(tasks) :
             LET c == tasks[i].conn IN
             /\ (tasks[i].pc = "create" /\ ChatCreate(i, FALSE)) =>
                   /\ messages' = messages
                   /\ \A d \in Conns \ {c} : sent'[d] = <<>>
                   /\ Len(sent'[c]) = (IF readyState[c] = "OPEN" THEN 1 ELSE 0)
                   /\ \A k \in 1..Len(sent'[c]) : sent'[c][k].type = "error"
             /\ (tasks[i].pc = "populate" /\ ChatPopulate(i, FALSE)) => messages' = messages
             /\ (tasks[i].pc = "update" /\ ChatUpdate(i, FALSE)) => messages' = messages
       /\ Len(messages') >= Len(messages)
       /\ \A m \in 1..Len(messages) :
             /\ messages'[m].sender = messages[m].sender
             /\ messages'[m].receiver = messages[m].receiver]_vars

\* The status update of a delivered Message was rejected: the sender got
\* message_sent and then an error, the receiver its new_message, and the
\* Message is still stored.
C15_Witness ==
    /\ finished.type = "chat_message"
    /\ TypesOf(finished.out) = <<"message_sent", "new_message", "error">>
    /\ finished.mid \in 1..Len(messages)
    /\ messages[finished.mid].sender = userId[finished.conn]
    /\ messages[finished.mid].status = "sent"
\* Connection d is open in a running server process.
Served(d) == ~crashed /\ readyState[d] = "OPEN"

\* A store call of the connection handler or of the close handler of c is
\* rejected.
StoreFailureAt(c) ==
    \/ hpc[c] = "findUser" /\ HandshakeFindUser(c, FALSE)
    \/ hpc[c] = "setOnline" /\ HandshakeSetOnline(c, FALSE)
    \/ hpc[c] = "broadcast" /\ HandshakeBroadcast(c, FALSE)
    \/ cpc[c] = "setOffline" /\ CloseSetOffline(c, FALSE)
    \/ cpc[c] = "broadcast" /\ CloseBroadcast(c, FALSE)

\* C16: a failure raised while serving one connection is contained at that
\* connection: every other connection that was being served still is, and
\* the registry entries of the other identities are as before.
C16_FailureContained ==
    [][\A c \in Conns :
          StoreFailureAt(c) =>
             /\ \A d \in Conns \ {c} : Served(d) => Served(d)'
             /\ \A u \in Users \ {userId[c]} :
                   connectedClients'[u] = connectedClients[u]]_vars
\* No connection handler and no close handler is suspended at an await.
Quiescent ==
    /\ \A c \in Conns : hpc[c] \notin {"findUser", "setOnline", "broadcast"}
    /\ \A c \in Conns : cpc[c] \notin {"setOffline", "broadcast"}

\* C17: whenever no handshake and no close handling is under way, the
\* identities that have a registry entry are the identities whose presence
\* flag is true.
C17_RegistryIsOnlineSet ==
    (Quiescent /\ ~crashed) =>
        {u \in Users : connectedClients[u] # NoConn} = {u \in Users : isOnline[u]}
\* C18: typing_start / typing_stop with a receiverId sends one
\* typing_indicator -- isTyping true / false, carrying the identity of the
\* sender -- to the registered open connection of the receiver and to no
\* other connection; without such a connection nothing is sent; in both
\* cases Messages, presence flags, registry and connections stay as they
\* are.
C18_TypingRelay ==
    [][\A c \in Conns \cap {finished'.conn}, e \in FrameEnvelopes :
          (/\ e.type \in {"typing_start", "typing_stop"}
           /\ e.hasData
           /\ e.id # ""
           /\ finished'.type = e.type
           /\ finished'.id = e.id
           /\ OnMessage(c, e)) =>
             LET rc == IF e.id \in Users THEN connectedClients[e.id] ELSE NoConn
                 open == rc # NoConn /\ readyState[rc] = "OPEN"
                 indicator == Env("typing_indicator", 0, userId[c],
                                  IF e.type = "typing_start" THEN 1 ELSE 0, {}, "")
             IN  /\ \A d \in Conns :
                       sent'[d] = IF open /\ d = rc THEN <<indicator>> ELSE <<>>
                 /\ UNCHANGED <<connectedClients, isOnline, lastSeen, messages,
                                readyState, hpc, cpc, userId, closeCode, tasks>>]_vars

\* A typing_start was relayed to the open connection of the other
\* identity, and to it alone, with a Message in the store.
C18_Witness ==
    \E rc \in Conns :
        /\ finished.type = "typing_start"
        /\ rc # finished.conn
        /\ finished.id \in Users
        /\ connectedClients[finished.id] = rc
        /\ sent[rc] = <<Env("typing_indicator", 0, userId[finished.conn], 1, {}, "")>>
        /\ sent[finished.conn] = <<>>
        /\ messages # <<>>
\* C19: a mark_read with a senderId whose store update succeeds sends
\* mark_read_success with the number of Messages changed to the requester,
\* and messages_read, before it, to the counterparty -- the user its
\* senderId names, the sender of the Messages it marks -- exactly when the
\* counterparty has a registered open connection; when the update is
\* rejected nothing is stored, the requester gets one error envelope and
\* neither messages_read nor mark_read_success is sent.
C19_MarkReadNotices ==
    [][\A i \in 1..Len(tasks) :
          LET t == tasks[i]
              c == t.conn
              sc == IF Cast(t.id) \in Users THEN connectedClients[Cast(t.id)] ELSE NoConn
              online == sc # NoConn /\ readyState[sc] = "OPEN"
              changed == {m \in 1..Len(messages) : messages'[m] # messages[m]}
              notice == Env("messages_read", 0, userId[c], 0, {}, "")
              success == Env("mark_read_success", 0, t.id, Cardinality(changed), {}, "")
          IN  /\ (t.pc = "markRead" /\ finished'.type = "mark_read" /\ MarkReadResume(i, TRUE)) =>
                    \A d \in Conns :
                        sent'[d] = (IF online /\ d = sc THEN <<notice>> ELSE <<>>)
                                   \o (IF d = c /\ readyState[c] = "OPEN"
                                       THEN <<success>> ELSE <<>>)
              /\ (t.pc = "markRead" /\ finished'.type = "mark_read" /\ MarkReadResume(i, FALSE)) =>
                    /\ messages' = messages
                    /\ \A d \in Conns :
                          sent'[d] = IF d = c /\ readyState[c] = "OPEN"
                                     THEN <<ErrorEnv("Failed to mark messages as read.")>>
                                     ELSE <<>>]_vars

\* C20: a mark_read by r naming s changes only Messages with sender s,
\* receiver r and isRead false; every other Message -- of another pair, of
\* the reverse direction, already read -- keeps its isRead, readAt and
\* status, and no Message is added or removed.
C20_MarkReadFrame ==
    [][\A i \in 1..Len(tasks) :
          LET t == tasks[i]
              r == userId[t.conn]
          IN  (/\ t.pc = "markRead"
               /\ finished'.type = "mark_read"
               /\ (MarkReadResume(i, TRUE) \/ MarkReadResume(i, FALSE))) =>
                 /\ Len(messages') = Len(messages)
                 /\ \A m \in 1..Len(messages) :
                       \/ /\ messages[m].sender = Cast(t.id)
                          /\ messages[m].receiver = r
                          /\ ~messages[m].isRead
                       \/ /\ messages'[m].isRead = messages[m].isRead
                          /\ messages'[m].readAt = messages[m].readAt
                          /\ messages'[m].status = messages[m].status
                          /\ messages'[m] = messages[m]]_vars

\* A mark_read set the unread Message of its pair to read and left an
\* unread Message of the reverse direction as it was.
C20_Witness ==
    \E m1 \in 1..Len(messages), m2 \in 1..Len(messages) :
        /\ finished.type = "mark_read"
        /\ Wrote(finished.out, "mark_read_success")
        /\ finished.out[Len(finished.out)].env.n = 1
        /\ messages[m1].sender = Cast(finished.id)
        /\ messages[m1].receiver = userId[finished.conn]
        /\ messages[m1].isRead
        /\ messages[m1].readAt > 1
        /\ messages[m2].sender = userId[finished.conn]
        /\ messages[m2].receiver = Cast(finished.id)
        /\ ~messages[m2].isRead
        /\ messages[m2].readAt = 0
\* C21: a get_online_users whose query succeeds sends exactly one
\* online_users envelope, to the requesting connection and to no other;
\* its users list is the set of identities whose presence flag is true when
\* the query is answered and its totalOnline is the size of that list; no
\* registry entry, presence flag, Message or connection changes.
C21_OnlineUsersReply ==
    [][\A i \in 1..Len(tasks) :
          LET t == tasks[i]
              c == t.conn
              online == {u \in Users : isOnline[u]}
              reply == Env("online_users", 0, "", Cardinality(online), online, "")
          IN  (/\ t.pc = "find"
               /\ finished'.type = "get_online_users"
               /\ OnlineUsersResume(i, TRUE)) =>
                 /\ \A d \in Conns :
                       sent'[d] = IF d = c /\ readyState[c] = "OPEN"
                                  THEN <<reply>> ELSE <<>>
                 /\ finished'.out = Written(<<To(c, reply)>>)
                 /\ UNCHANGED <<connectedClients, isOnline, lastSeen, messages,
                                readyState, hpc, cpc, userId, closeCode>>]_vars

\* A get_online_users was answered with the two online identities on the
\* requesting connection while the open connection of the other identity
\* got nothing.
C21_Witness ==
    \E d \in Conns \ {finished.conn} :
        /\ finished.type = "get_online_users"
        /\ sent[finished.conn] = <<Env("online_users", 0, "", 2, {"a", "b"}, "")>>
        /\ readyState[d] = "OPEN"
        /\ hpc[d] = "active"
        /\ sent[d] = <<>>
        /\ isOnline = [u \in Users |-> TRUE]
\* The envelopes of the given type written to d in this step.
Got(d, type) == SelectSeq(sent'[d], LAMBDA env : env.type = type)

\* C22: on every registration and every deregistration of an identity u
\* the status envelope for u -- user_online for a registration,
\* user_offline for a deregistration -- is sent once to every open
\* connection that is not owned by u and to no connection owned by u, and in
\* the following step of the same handler one online_users snapshot is sent
\* to every open connection, those of u included.  The handler of a
\* registration or deregistration reaches its end only through these two
\* steps.
C22_PresenceBroadcasts ==
    [][\A c \in Conns :
          LET u == userId[c]
              status(type) ==
                  \A d \in Conns :
                      Got(d, type) = IF readyState[d] = "OPEN" /\ userId[d] # u
                                     THEN <<Env(type, 0, u, 0, {}, "")>>
                                     ELSE <<>>
              snapshot ==
                  \A d \in Conns :
                      /\ Got(d, "online_users") = sent'[d]
                      /\ Len(sent'[d]) = (IF readyState[d] = "OPEN" THEN 1 ELSE 0)
                      /\ \A k \in 1..Len(sent'[d]) :
                            /\ sent'[d][k].users = {v \in Users : isOnline[v]}
                            /\ sent'[d][k].n = Cardinality(sent'[d][k].users)
          IN  /\ (hpc[c] = "setOnline" /\ hpc'[c] # "setOnline") =>
                    hpc'[c] = "broadcast" /\ status("user_online")
              /\ (hpc[c] = "broadcast" /\ hpc'[c] # "broadcast") =>
                    hpc'[c] = "active" /\ snapshot
              /\ (cpc[c] = "setOffline" /\ cpc'[c] # "setOffline") =>
                    cpc'[c] = "broadcast" /\ status("user_offline")
              /\ (cpc[c] = "broadcast" /\ cpc'[c] # "broadcast") =>
                    cpc'[c] = "done" /\ snapshot
              /\ Registers(c) => u = "" /\ connectedClients'[userId'[c]] = c
              /\ hpc'[c] = "active" => hpc[c] \in {"broadcast", "active"}
              /\ hpc'[c] = "broadcast" => hpc[c] \in {"setOnline", "broadcast"}
              /\ hpc'[c] = "setOnline" => hpc[c] = "setOnline" \/ Registers(c)
              /\ (u # "" /\ connectedClients[u] # NoConn /\ connectedClients'[u] = NoConn) =>
                    \E d \in Conns : userId[d] = u /\ cpc[d] = "none" /\ cpc'[d] = "setOffline"
              /\ cpc'[c] = "done" => cpc[c] \in {"broadcast", "done"}
              /\ cpc'[c] = "broadcast" => cpc[c] \in {"setOffline", "broadcast"}]_vars

\* The second connection of an identity has announced its registration:
\* the open connection of the other identity got user_online, the new
\* connection its welcome, the superseded connection of the same identity
\* nothing.
C22_Witness ==
    \E c \in Conns, d \in Conns, old \in Conns :
        /\ hpc[c] = "broadcast"
        /\ userId[old] = userId[c]
        /\ old # c
        /\ sent[old] = <<>>
        /\ hpc[d] = "active"
        /\ userId[d] \notin {"", userId[c]}
        /\ sent[d] = <<Env("user_online", 0, userId[c], 0, {}, "")>>
        /\ sent[c] = <<Env("connection_established", 0, userId[c], 0, {}, "")>>
\* C23: presence broadcasts are best-effort per connection: when the send
\* of a user_online / user_offline / online_users broadcast to one
\* connection fails (its transport is dead: the write error is pending on
\* that socket afterwards), the handler goes on and every other open
\* connection of the broadcast still gets the envelope -- the status
\* envelope every open connection not owned by the subject, the snapshot
\* every open connection.
C23_BestEffortBroadcast ==
    [][\A c \in Conns, f \in FailedSends(sent') :
          LET u == userId[c]
              has(d, env) == \E k \in 1..Len(sent'[d]) : sent'[d][k] = env
              status(type) ==
                  has(f, Env(type, 0, u, 0, {}, "")) =>
                     \A d \in Conns \ {f} :
                        (readyState[d] = "OPEN" /\ userId[d] # u) =>
                            has(d, Env(type, 0, u, 0, {}, ""))
              online == {v \in Users : isOnline[v]}
              snapshot ==
                  \A d \in Conns \ {f} :
                      readyState[d] = "OPEN" =>
                          has(d, Env("online_users", 0, "", Cardinality(online), online, ""))
          IN  /\ f \in failed'
              /\ ~crashed'
              /\ (hpc[c] = "setOnline" /\ hpc'[c] = "broadcast") => status("user_online")
              /\ (cpc[c] = "setOffline" /\ cpc'[c] = "broadcast") => status("user_offline")
              /\ (hpc[c] = "broadcast" /\ hpc'[c] = "active") => snapshot
              /\ (cpc[c] = "broadcast" /\ cpc'[c] = "done") => snapshot]_vars

\* A registration was announced while the open connection of another
\* identity had a dead transport: the send to it failed, and a third open
\* connection, accepted after the dead one, got user_online all the same.
C23_Witness ==
    \E c \in Conns, f \in failed, d \in Conns :
        /\ hpc[c] = "broadcast"
        /\ readyState[f] = "OPEN"
        /\ userId[f] \notin {"", userId[c]}
        /\ sent[f] = <<Env("user_online", 0, userId[c], 0, {}, "")>>
        /\ f < d
        /\ d # c
        /\ d \notin dead
        /\ readyState[d] = "OPEN"
        /\ sent[d] = <<Env("user_online", 0, userId[c], 0, {}, "")>>
        /\ sent[c] = <<Env("connection_established", 0, userId[c], 0, {}, "")>>
\* Connection c is the registry entry of its identity.
Registered(c) == userId[c] # "" /\ connectedClients[userId[c]] = c

\* C24: a liveness tick handles the registered connections and only them:
\* a registered connection whose socket is open and that has not
\* acknowledged the previous probe is terminated; one that has is marked
\* unacknowledged and probed; a connection that is not registered is
\* neither probed nor terminated by the tick.
C24_TickOnlyRegistered ==
    [][ticks' = ticks + 1 =>
          \A c \in Conns :
              /\ (Registered(c) /\ readyState[c] = "OPEN" /\ isAlive[c] = "false") =>
                    readyState'[c] = "CLOSING" /\ closeCode'[c] = 1006
              /\ (Registered(c) /\ readyState[c] = "OPEN" /\ isAlive[c] # "false") =>
                    isAlive'[c] = "false" /\ readyState'[c] = "OPEN"
              /\ ~Registered(c) =>
                    /\ isAlive'[c] = isAlive[c]
                    /\ readyState'[c] = readyState[c]
                    /\ closeCode'[c] = closeCode[c]]_vars
\* C25: a registered connection whose transport has died is reclaimed by
\* the heartbeat: it never acknowledges again, so the first tick after
\* its last acknowledgement marks it unacknowledged and the second
\* terminates it; the close that follows is handled as a disconnect -- the
\* registry entry of its identity is removed and the presence flag of the
\* identity is then stored as offline.
C25_DeadConnectionReclaimed ==
    [][\A c \in dead :
          /\ (Registered(c) /\ isAlive[c] = "false") => isAlive'[c] = "false"
          /\ (ticks' = ticks + 1 /\ Registered(c) /\ readyState[c] = "OPEN") =>
                IF isAlive[c] = "false"
                THEN readyState'[c] = "CLOSING" /\ closeCode'[c] = 1006
                ELSE isAlive'[c] = "false"
          /\ (Closes(c) /\ closeCode[c] = 1006 /\ Registered(c)) =>
                /\ connectedClients'[userId[c]] = NoConn
                /\ cpc'[c] = "setOffline"
          /\ (cpc[c] = "setOffline" /\ cpc'[c] # "setOffline") =>
                ~isOnline'[userId[c]]]_vars
\* C26: an envelope of an unrecognized type is answered with one error
\* envelope that cites the type, a payload that cannot be parsed with one
\* error envelope, each to the sender alone; the connection stays open and
\* registered, and registry, presence flags, Messages, the other
\* connections and the pending handlers are as before.
C26_UnknownOrMalformed ==
    [][\A c \in Conns \cap {finished'.conn}, e \in FrameEnvelopes :
          (/\ e.type \in {"unknown", "unparseable"}
           /\ finished'.type = e.type
           /\ readyState[c] = "OPEN"
           /\ OnMessage(c, e)) =>
             /\ sent'[c] = <<ErrorEnv(IF e.type = "unknown"
                                      THEN "Unknown message type: unknown"
                                      ELSE InvalidFormat)>>
             /\ \A d \in Conns \ {c} : sent'[d] = <<>>
             /\ readyState'[c] = "OPEN"
             /\ Registered(c) => Registered(c)'
             /\ connectedClients' = connectedClients
             /\ isOnline' = isOnline
             /\ lastSeen' = lastSeen
             /\ messages' = messages
             /\ tasks' = tasks
             /\ \A d \in Conns :
                   /\ readyState'[d] = readyState[d]
                   /\ closeCode'[d] = closeCode[d]
                   /\ hpc'[d] = hpc[d]
                   /\ cpc'[d] = cpc[d]
                   /\ userId'[d] = userId[d]]_vars

\* A frame of an unknown type was answered with one error on a registered
\* open connection while another identity is connected and a Message is
\* stored.
C26_Witness ==
    /\ finished.type = "unknown"
    /\ sent[finished.conn] = <<ErrorEnv("Unknown message type: unknown")>>
    /\ readyState[finished.conn] = "OPEN"
    /\ Registered(finished.conn)
    /\ \E d \in Conns \ {finished.conn} :
          hpc[d] = "active" /\ readyState[d] = "OPEN" /\ sent[d] = <<>>
    /\ messages # <<>>
\* The Messages some chat_message handler is still working on.
TaskMids(ts) == {ts[i].mid : i \in {j \in 1..Len(ts) : ts[j].type = "chat_message"}} \ {0}

\* A segment of the REST send handler that is task i runs.
RestSendStep(i) ==
    \/ tasks[i].pc = "restFind" /\ \E ok \in BOOLEAN : sendMessageFound(i, ok)
    \/ tasks[i].pc = "restCreate" /\ \E ok \in BOOLEAN : sendMessageCreated(i, ok)
    \/ tasks[i].pc = "restPopulate" /\ sendMessagePopulated(i)

\* C27: the REST send endpoint stores the Message with status sent and
\* writes no envelope to any connection, whether or not the receiver has a
\* registered open connection; it is the Message of no chat_message
\* handler, and the status of such a Message stays sent until a mark_read
\* (WebSocket or REST) sets it to read.
C27_RestSend ==
    [][/\ \A i \in 1..Len(tasks) :
             (tasks[i].pc = "restCreate" /\ sendMessageCreated(i, TRUE)) =>
                /\ Len(messages') = Len(messages) + 1
                /\ messages'[Len(messages')] =
                      [sender |-> tasks[i].user, receiver |-> Cast(tasks[i].id),
                       status |-> "sent", isRead |-> FALSE, readAt |-> 0]
                /\ \A m \in 1..Len(messages) : messages'[m] = messages[m]
                /\ Len(messages') \notin TaskMids(tasks')
       /\ \A i \in 1..Len(tasks) :
             (tasks[i].type = "rest_send" /\ RestSendStep(i)) =>
                /\ \A d \in Conns : sent'[d] = <<>>
                /\ UNCHANGED <<connectedClients, isOnline, lastSeen, readyState>>
       /\ \A u \in Users, rid \in RestIds :
             (Len(tasks') = Len(tasks) + 1 /\ sendMessage(u, rid, TRUE)) =>
                /\ \A d \in Conns : sent'[d] = <<>>
                /\ UNCHANGED <<connectedClients, isOnline, lastSeen, readyState, messages>>
       /\ TaskMids(tasks') \subseteq
             TaskMids(tasks) \cup
                (IF tasks' # tasks /\ Len(messages') > Len(messages)
                 THEN {Len(messages')} ELSE {})
       /\ \A m \in 1..Len(messages) :
             (m \notin TaskMids(tasks) /\ messages[m].status = "sent"
                /\ messages'[m].status # "sent") =>
                   \E i \in 1..Len(tasks) :
                       /\ messages'[m] = [messages[m] EXCEPT !.status = "read",
                                              !.isRead = TRUE, !.readAt = tasks[i].at]
                       /\ \/ tasks[i].pc = "markRead" /\ MarkReadResume(i, TRUE)
                          \/ tasks[i].pc = "restMark" /\ markMessagesAsReadResume(i, TRUE)]_vars

\* A Message sent over REST by an identity that has no connection is
\* stored as sent while its receiver has a registered open connection, and
\* no envelope was written.
C27_Witness ==
    \E rc \in Conns :
        /\ Len(messages) = 1
        /\ messages[1].status = "sent"
        /\ \A c \in Conns : userId[c] # messages[1].sender
        /\ connectedClients[messages[1].receiver] = rc
        /\ readyState[rc] = "OPEN"
        /\ hpc[rc] = "active"
        /\ sent = NoSent
        /\ finished = NoTask
        /\ tasks = <<>>
\* C28: a transport that closes while the handshake of its connection is
\* suspended on a store call leaves no stale registration behind: once no
\* handler is suspended and no close is under way, every registry entry is
\* an open connection, and every identity whose presence flag is true has
\* an open connection.
C28_NoStaleRegistration ==
    (Quiescent /\ ~crashed /\ \A c \in Conns : readyState[c] # "CLOSING") =>
        /\ \A u \in Users :
              connectedClients[u] # NoConn => readyState[connectedClients[u]] = "OPEN"
        /\ \A u \in Users :
              isOnline[u] => \E c \in Conns : userId[c] = u /\ readyState[c] = "OPEN"
\* C29: user_offline for u is written to a connection, and the presence
\* flag of u is stored as false, only in a step after which u has no
\* registered open connection; so a superseded connection going away never
\* shows u offline while a newer connection of u is registered.
C29_OfflineOnlyWhenGone ==
    [][\A u \in Users :
          (\/ isOnline[u] /\ ~isOnline'[u]
           \/ \E d \in Conns : \E k \in 1..Len(sent'[d]) :
                 sent'[d][k].type = "user_offline" /\ sent'[d][k].uid = u) =>
             ~(/\ connectedClients'[u] # NoConn
               /\ readyState'[connectedClients'[u]] = "OPEN")]_vars
\* C30: the sender of a chat_message gets an error envelope for it only if
\* no Message was stored and no new_message was written for it; so the
\* handler never writes both message_sent and an error, not even when the
\* status update fails after new_message went to the receiver.
C30_ErrorMeansNothingDone ==
    (finished.type = "chat_message" /\ Wrote(finished.out, "error")) =>
        /\ finished.mid = 0
        /\ ~Wrote(finished.out, "new_message")
        /\ ~Wrote(finished.out, "message_sent")
\* C31: the malformed-envelope error ('Invalid message format...') answers
\* only payloads that cannot be parsed: the handling of a parseable
\* envelope of a known type never writes it, with or without a data object,
\* whether or not the store query of get_online_users succeeds.
C31_InvalidFormatOnlyUnparseable ==
    (finished.type \in EnvelopeTypes \ {"unparseable", "unknown"}) =>
        \A k \in 1..Len(finished.out) :
            finished.out[k].env # ErrorEnv(InvalidFormat)
\* C32: no envelope is routed for a connection that has not passed the
\* handshake: every envelope being handled, or just handled, came in on a
\* connection that carries the identity of a user and whose connection
\* handler has finished; an envelope that arrives earlier runs no handler:
\* it writes nothing and leaves store, registry, connections and pending
\* handlers as they are.
C32_RoutedOnlyAfterHandshake ==
    /\ [](/\ \A i \in 1..Len(tasks) :
                tasks[i].conn # NoConn =>
                    userId[tasks[i].conn] \in Users /\ hpc[tasks[i].conn] = "active"
          /\ finished.conn # NoConn =>
                userId[finished.conn] \in Users /\ hpc[finished.conn] = "active")
    /\ [][\A c \in Conns :
             (hpc[c] # "active" /\ \E e \in FrameEnvelopes : OnMessageNoListener(c, e)) =>
                /\ sent' = NoSent
                /\ finished' = NoTask
                /\ UNCHANGED <<connectedClients, isOnline, lastSeen, messages, tasks,
                               readyState, hpc, cpc, userId, closeCode>>]_vars

\* An envelope was handled on a connection with a finished handshake while
\* another connection, open, is still in its handshake.
C32_Witness ==
    \E d \in Conns :
        /\ finished.conn # NoConn
        /\ hpc[finished.conn] = "active"
        /\ userId[finished.conn] \in Users
        /\ hpc[d] \in {"findUser", "setOnline", "broadcast"}
        /\ readyState[d] = "OPEN"
        /\ d # finished.conn
\* C33: a new_message for a Message with receiver r is written only to a
\* connection whose identity is r and that is the registry entry of r when
\* the handler looks it up -- never to the connection of the sender or of
\* a third identity; a typing_indicator and a messages_read are written
\* only to the registry entry of the identity the envelope names, a
\* connection of that identity.
C33_RecipientTargeting ==
    [][\A d \in Conns : \A k \in 1..Len(sent'[d]) :
          LET env == sent'[d][k] IN
          /\ env.type = "new_message" =>
                \E i \in 1..Len(tasks) :
                    /\ tasks[i].pc = "populate"
                    /\ tasks[i].mid = env.mid
                    /\ env.mid \in 1..Len(messages)
                    /\ userId[d] = messages[env.mid].receiver
                    /\ connectedClients[messages[env.mid].receiver] = d
                    /\ d # tasks[i].conn
                    /\ userId[d] # userId[tasks[i].conn]
                    /\ env.uid = messages[env.mid].sender
          /\ env.type \in {"typing_indicator", "messages_read"} =>
                /\ finished'.type = (IF env.type = "messages_read" THEN "mark_read"
                                     ELSE IF env.n = 1 THEN "typing_start"
                                     ELSE "typing_stop")
                /\ finished'.id \in Users
                /\ userId[d] = finished'.id
                /\ connectedClients[finished'.id] = d
                /\ env.uid = userId[finished'.conn]]_vars

\* A chat_message is at its status update: new_message went to the
\* registry entry of the receiver of its Message, and the sender, a
\* different identity on a different connection, got message_sent alone.
C33_Witness ==
    \E i \in 1..Len(tasks), rc \in Conns :
        LET t == tasks[i] IN
        /\ t.pc = "update"
        /\ t.mid \in 1..Len(messages)
        /\ sent[rc] = <<Env("new_message", t.mid, userId[t.conn], 0, {}, "")>>
        /\ userId[rc] = messages[t.mid].receiver
        /\ connectedClients[userId[rc]] = rc
        /\ rc # t.conn
        /\ sent[t.conn] = <<Env("message_sent", t.mid, t.id, 0, {}, "sent")>>
\* The positions in out of the envelopes of the given type.
Positions(out, type) == {k \in 1..Len(out) : out[k].env.type = type}

\* C34: the message_sent, new_message and message_delivered of one
\* chat_message all carry the id of the one Message its handler stored;
\* message_delivered is written only once new_message has been written to
\* the receiver and the update to status delivered has been stored; a
\* status becomes delivered only for a Message whose new_message has been
\* written.
C34_DeliveryReceipts ==
    /\ [](\A k \in 1..Len(finished.out) :
             finished.out[k].env.type \in
                    {"message_sent", "new_message", "message_delivered"} =>
                /\ finished.type = "chat_message"
                /\ finished.out[k].env.mid = finished.mid
                /\ finished.mid \in 1..Len(messages)
                /\ finished.out[k].env.type = "message_delivered" =>
                      \E j \in Positions(finished.out, "new_message") :
                          /\ j < k
                          /\ finished.out[j].to # finished.conn
                          /\ userId[finished.out[j].to] = messages[finished.mid].receiver)
    /\ [][/\ \A d \in Conns : \A k \in 1..Len(sent'[d]) :
                sent'[d][k].type = "message_delivered" =>
                   /\ sent'[d][k].mid \in 1..Len(messages)
                   /\ messages'[sent'[d][k].mid].status = "delivered"
                   /\ finished'.mid = sent'[d][k].mid
                   /\ finished'.conn = d
          /\ \A m \in 1..Len(messages) :
                (messages[m].status # "delivered" /\ messages'[m].status = "delivered") =>
                   /\ finished'.mid = m
                   /\ Positions(finished'.out, "new_message") # {}]_vars

\* The chat_message that stored the second Message ran to its end while
\* the one that stored the first is still at its status update: its three
\* envelopes name the second Message, which is now delivered.
C34_Witness ==
    /\ finished.type = "chat_message"
    /\ Len(messages) = 2
    /\ finished.mid = 2
    /\ \E i \in 1..Len(tasks) : tasks[i].pc = "update" /\ tasks[i].mid = 1
    /\ messages[1].status = "sent"
    /\ [k \in 1..Len(finished.out) |-> finished.out[k].env.mid] =
          <<finished.mid, finished.mid, finished.mid>>
    /\ [k \in 1..Len(finished.out) |-> finished.out[k].to = finished.conn] =
          <<TRUE, FALSE, TRUE>>
    /\ Positions(finished.out, "message_delivered") = {3}
    /\ messages[finished.mid].status = "delivered"
    /\ ~messages[finished.mid].isRead
\* The registry holds, under id, a connection that is not open.
StaleEntry(id) ==
    /\ id \in Users
    /\ connectedClients[id] # NoConn
    /\ readyState[connectedClients[id]] # "OPEN"

\* C35: an envelope is written only to a socket that is open when the
\* handler writes it; an identity whose registry entry is a closing or
\* closed connection counts as offline: a chat_message to it writes
\* message_sent to the sender and nothing else and issues no status update,
\* a typing signal writes nothing, a mark_read writes only
\* mark_read_success to the requester.
C35_NoSendUnlessOpen ==
    [][/\ \A d \in Conns :
             sent'[d] # <<>> =>
                \/ readyState[d] = "OPEN"
                \/ readyState[d] = "NEW" /\ readyState'[d] # "NEW"
       /\ \A i \in 1..Len(tasks) :
             LET t == tasks[i]
                 c == t.conn
                 open == readyState[c] = "OPEN"
             IN  /\ (t.pc = "populate" /\ StaleEntry(t.id) /\ ChatPopulate(i, TRUE)) =>
                       /\ \A d \in Conns :
                             sent'[d] = IF d = c /\ open
                                        THEN <<Env("message_sent", t.mid, t.id, 0, {}, "sent")>>
                                        ELSE <<>>
                       /\ finished'.mid = t.mid
                       /\ finished'.pc = "done"
                       /\ messages' = messages
                 /\ (t.pc = "markRead" /\ StaleEntry(t.id) /\ MarkReadResume(i, TRUE)) =>
                       \A d \in Conns :
                           sent'[d] # <<>> =>
                              /\ d = c
                              /\ open
                              /\ Len(sent'[d]) = 1
                              /\ sent'[d][1].type = "mark_read_success"
       /\ \A c \in Conns \cap {finished'.conn}, e \in RoutingEnvelopes :
             (/\ e.type \in {"typing_start", "typing_stop"}
              /\ finished'.type = e.type
              /\ finished'.id = e.id
              /\ StaleEntry(e.id)
              /\ OnMessage(c, e)) => sent' = NoSent]_vars

\* A chat_message to an identity whose registry entry the heartbeat has
\* terminated ended with message_sent alone: nothing was written to the
\* closing connection and the Message is in status sent.
C35_Witness ==
    \E rc \in Conns :
        /\ finished.type = "chat_message"
        /\ finished.id \in Users
        /\ connectedClients[finished.id] = rc
        /\ readyState[rc] = "CLOSING"
        /\ closeCode[rc] = 1006
        /\ sent[rc] = <<>>
        /\ TypesOf(finished.out) = <<"message_sent">>
        /\ finished.mid \in 1..Len(messages)
        /\ messages[finished.mid].status = "sent"
\* The pong of c for the last ping has reached the server: the listener
\* recorded it, or it arrived in the last step with no listener attached.
Acknowledged(c) ==
    \/ isAlive[c] = "true"
    \/ finished.type = "pong" /\ finished.conn = c

\* C36: a registered connection whose client has acknowledged the last
\* liveness probe is not terminated by the next tick.
C36_AcknowledgedNeverTerminated ==
    [][\A c \in Conns :
          (/\ ticks' = ticks + 1
           /\ Registered(c)
           /\ readyState[c] = "OPEN"
           /\ Acknowledged(c)) =>
              readyState'[c] = "OPEN" /\ closeCode'[c] = closeCode[c]]_vars

\* The same for connections whose handshake has finished, where the code
\* keeps the promise.
C36_ActiveNeverTerminated ==
    [][\A c \in Conns :
          (/\ ticks' = ticks + 1
           /\ Registered(c)
           /\ hpc[c] = "active"
           /\ readyState[c] = "OPEN"
           /\ Acknowledged(c)) =>
              readyState'[c] = "OPEN" /\ closeCode'[c] = closeCode[c]]_vars
\* C37: the WebSocket chat_message path and the REST send endpoint accept
\* the same requests: a chat_message that persists a Message is a request
\* the REST endpoint persists, a REST request that persists a Message
\* passes the validation of the chat_message path, and the receiver of
\* every persisted Message is an existing identity.
C37_SameAcceptance ==
    [][/\ \A i \in 1..Len(tasks) :
             (tasks[i].pc = "create" /\ ChatCreate(i, TRUE)) =>
                RestAccepts(userId[tasks[i].conn], tasks[i].id, TRUE)
       /\ \A i \in 1..Len(tasks) :
             (tasks[i].pc = "restCreate" /\ sendMessageCreated(i, TRUE)) =>
                WsAccepts(tasks[i].user, tasks[i].id, TRUE)
       /\ \A m \in 1..Len(messages') : messages'[m].receiver \in Users]_vars

\* The half of it that the code keeps: what the REST endpoint persists
\* passes the validation of the chat_message path, and its receiver exists.
C37_RestImpliesWs ==
    [][\A i \in 1..Len(tasks) :
          (tasks[i].pc = "restCreate" /\ sendMessageCreated(i, TRUE)) =>
             /\ WsAccepts(tasks[i].user, tasks[i].id, TRUE)
             /\ messages'[Len(messages')].receiver \in Users]_vars
\* C38: a typing_indicator is never written to a connection of the
\* identity that sent the typing signal; a typing_start / typing_stop whose
\* receiverId is the sender's own identity writes nothing.
C38_NoTypingToSelf ==
    [][/\ \A d \in Conns :
             \A k \in 1..Len(sent'[d]) :
                 sent'[d][k].type = "typing_indicator" => sent'[d][k].uid # userId[d]
       /\ \A c \in Conns \cap {finished'.conn}, e \in RoutingEnvelopes :
             (/\ e.type \in {"typing_start", "typing_stop"}
              /\ e.id = userId[c]
              /\ finished'.type = e.type
              /\ finished'.id = e.id
              /\ OnMessage(c, e)) => sent' = NoSent]_vars
====
